---- MODULE Spec2Model ----
(***************************************************************************)
(* A model of the forth3 virtual machine on a 32-bit target: the           *)
(* dictionary arena (DictionaryBump) at byte granularity, the linked       *)
(* dictionary, the compiler (colon, munch_one), the interpreter driver     *)
(* (interpret) over the call stack, and the async single-step wrapper.     *)
(* Cells are 4 bytes, little endian; pointers are absolute addresses.      *)
(***************************************************************************)
EXTENDS Integers, Sequences, FiniteSets, TLC

VARIABLES
    mode,           \* Forth::mode: "Run" | "Compile"
    data_stack,     \* Forth::data_stack, top is the last element
    return_stack,   \* Forth::return_stack
    call_stack,     \* Forth::call_stack, records [eh, idx, len]
    dict_alloc,     \* Forth::dict_alloc: [start, cur, end] plus the backing bytes
    run_dict_tail,  \* Forth::run_dict_tail, 0 is None
    input,          \* Forth::input: [buf, pos]
    output,         \* Forth::output, a sequence of bytes
    pc,             \* where process_line / the interpreter stands
    res,            \* the result being returned by the function that just ran
    ret,            \* the result of the last process_line (or host call)
    last,           \* the last host-level operation: [op, r, cur0]
    nlines,         \* number of host calls made so far
    variant         \* the VM the host built: "sync" (Forth) | "async" (AsyncForth)

vars == <<mode, data_stack, return_stack, call_stack, dict_alloc, run_dict_tail,
          input, output, pc, res, ret, last, nlines, variant>>

(***************************************************************************)
(* Bounds of the model.                                                    *)
(***************************************************************************)
ArenaSize == 120
DStackSize == 3
RStackSize == 3
CStackSize == 3
OutSize == 12
MaxLines == 3
MaxArenaOps == 3
SmallArenaSize == 24
OddArenaSize == 22
CompileArenaSize == 320
MaxCompileLines == 2
RunFuel == 48

(***************************************************************************)
(* Program constants of the 32-bit target.                                 *)
(***************************************************************************)
WordSize == 4
EntrySize == 20
BuiltinEntrySize == 16
ArenaStart == 536870912
BuiltinsBase == 134217728
MaxNameLen == 31
U16Max == 65535
KindStaticBuiltin == 0
KindRuntimeBuiltin == 1
KindDictionary == 2
KindAsyncBuiltin == 3

NULL == 0
I32Max == 2147483647
I32Min == (0 - I32Max) - 1

(***************************************************************************)
(* Bytes and cells.                                                        *)
(***************************************************************************)
RECURSIVE XorBits(_, _, _)
XorBits(a, b, n) ==
    IF n = 0 THEN 0
    ELSE ((a + b) % 2) + 2 * XorBits(a \div 2, b \div 2, n - 1)

\* the 4 little-endian bytes of a signed 32-bit cell
LE4(v) ==
    LET u  == IF v >= 0 THEN v ELSE (v + I32Max) + 1
        b3 == (u \div 16777216) + (IF v >= 0 THEN 0 ELSE 128)
    IN  <<u % 256, (u \div 256) % 256, (u \div 65536) % 256, b3>>

LE2(v) == <<v % 256, (v \div 256) % 256>>

\* the signed 32-bit value of 4 little-endian bytes
FromLE4(b) ==
    LET u == b[1] + 256 * b[2] + 65536 * b[3] + 16777216 * (b[4] % 128)
    IN  IF b[4] >= 128 THEN (u - I32Max) - 1 ELSE u

ToLower(ch) == IF ch >= 65 /\ ch <= 90 THEN ch + 32 ELSE ch
IsAscii(ch) == ch < 128

Min(a, b) == IF a < b THEN a ELSE b

\* let x = e; followed by the code that uses x, written
\* Val([x \in {e} |-> code]): the value of the one-point function
Val(fn) == fn[CHOOSE x \in DOMAIN fn : TRUE]

\* a Result: the VM after the call and "Ok" or the error
R(f, r) == [f |-> f, r |-> r]

(***************************************************************************)
(* fastr.rs: LenHash and FaStr.  The 32-bit FNV-1a hash is computed on two *)
(* 16-bit limbs.                                                           *)
(***************************************************************************)
FnvStep(h, byte) ==
    LET lo0 == ((h.lo \div 256) * 256) + XorBits(h.lo % 256, byte, 8)
        p   == lo0 * 403
        hi1 == (h.hi * 403 + lo0 * 256 + (p \div 65536)) % 65536
    IN  [hi |-> hi1, lo |-> p % 65536]

RECURSIVE FnvFold(_, _, _)
FnvFold(h, s, i) ==
    IF i > Len(s) THEN h ELSE FnvFold(FnvStep(h, s[i]), s, i + 1)

\* LenHash::from_bstr: (len << 24) | (hash & 0x00FF_FFFF), len capped at 31
LenHash_from_bstr(s) ==
    Val([h \in {FnvFold([hi |-> 33052, lo |-> 40389], SubSeq(s, 1, Min(Len(s), MaxNameLen)), 1)} |-> Min(Len(s), MaxNameLen) * 16777216 + (h.hi % 256) * 65536 + h.lo])

LenHash_len(inner) == (inner \div 16777216) % 32

\* LenHash::eq_ignore_bits: compare everything but the 3 high bits
LenHash_eq_ignore_bits(a, b) == (a % 536870912) = (b % 536870912)

(***************************************************************************)
(* dictionary.rs: the arena.  d = [start, cur, end, mem, oob]; mem maps an *)
(* offset from start to a byte, oob collects the ranges written outside it. *)
(***************************************************************************)
DictionaryBump_new(bottom, size, fill) ==
    [start |-> bottom, cur |-> bottom, end |-> bottom + size,
     mem |-> [i \in 0..(size - 1) |-> fill], oob |-> {}]

InArena(d, a) == a >= d.start /\ a < d.end

\* the parts <<first, last>> of the n bytes at a that lie outside the arena
OutOfArena(d, a, n) ==
    {r \in {<<a, Min(a + n - 1, d.start - 1)>>,
            <<IF a > d.end THEN a ELSE d.end, a + n - 1>>} : r[1] <= r[2]}

\* a raw write of the bytes bs at address a
WriteBytes(d, a, bs) ==
    [d EXCEPT
        !.mem = [i \in DOMAIN d.mem |->
                    IF d.start + i >= a /\ d.start + i < a + Len(bs)
                    THEN bs[(d.start + i - a) + 1] ELSE d.mem[i]],
        !.oob = d.oob \cup OutOfArena(d, a, Len(bs))]

Zeros(n) == [i \in 1..n |-> 0]

ReadByte(d, a) == IF InArena(d, a) THEN d.mem[a - d.start] ELSE 0
ReadBytes(d, a, n) == [i \in 1..n |-> ReadByte(d, a + i - 1)]
ReadWord(d, a) == FromLE4(ReadBytes(d, a, 4))
ReadU16(d, a) == ReadByte(d, a) + 256 * ReadByte(d, a + 1)

\* DictionaryBump::bump_u8s
bump_u8s(d, n) ==
    IF n = 0 THEN [d |-> d, ptr |-> NULL]
    ELSE LET req == d.cur + n
         IN  IF req > d.end THEN [d |-> d, ptr |-> NULL]
             ELSE [d |-> [d EXCEPT !.cur = req], ptr |-> d.cur]

\* bump_u8 without the comparison against end; ArenaBounds rejects it
bump_u8_unchecked(d) == [d |-> [d EXCEPT !.cur = d.cur + 1], ptr |-> d.cur]

\* DictionaryBump::bump_u8
bump_u8(d) ==
    IF d.cur >= d.end THEN [d |-> d, ptr |-> NULL]
    ELSE [d |-> [d EXCEPT !.cur = d.cur + 1], ptr |-> d.cur]

AlignOffset(a, align) == (align - (a % align)) % align

\* bump::<T>() keeping the padding allocated when the value does not fit;
\* OomKeepsCursor rejects it
bump_keep_padding(d, align, size) ==
    LET offset    == AlignOffset(d.cur, align)
        d1        == WriteBytes(d, d.cur, Zeros(offset))
        align_cur == d.cur + offset
        new_cur   == align_cur + size
    IN  IF new_cur > d.end
        THEN [d |-> [d1 EXCEPT !.cur = Min(align_cur, d.end)],
              r |-> "OutOfMemory", ptr |-> NULL]
        ELSE [d |-> [d1 EXCEPT !.cur = new_cur], r |-> "Ok", ptr |-> align_cur]

\* bump::<T>() skipping the padding without writing it; AlignedBump rejects it
bump_padding_unwritten(d, align, size) ==
    LET offset    == AlignOffset(d.cur, align)
        align_cur == d.cur + offset
        new_cur   == align_cur + size
    IN  IF new_cur > d.end
        THEN [d |-> d, r |-> "OutOfMemory", ptr |-> NULL]
        ELSE [d |-> [d EXCEPT !.cur = new_cur], r |-> "Ok", ptr |-> align_cur]

\* DictionaryBump::bump::<T>() for a T of the given alignment and size
bump(d, align, size) ==
    LET offset    == AlignOffset(d.cur, align)
        d1        == WriteBytes(d, d.cur, Zeros(offset))
        align_cur == d.cur + offset
        new_cur   == align_cur + size
    IN  IF new_cur > d.end
        THEN [d |-> d1, r |-> "OutOfMemory", ptr |-> NULL]
        ELSE [d |-> [d1 EXCEPT !.cur = new_cur], r |-> "Ok", ptr |-> align_cur]

\* DictionaryBump::bump_write::<Word>(val)
bump_write(d, val) ==
    Val([b \in {bump(d, WordSize, WordSize)} |->
        IF b.r # "Ok" THEN [d |-> b.d, r |-> b.r]
        ELSE [d |-> WriteBytes(b.d, b.ptr, LE4(val)), r |-> "Ok"]])

\* bump_str writing the bytes as they come; InternedUpperFoundLower rejects it
bump_str_as_typed(d, s) ==
    LET len  == Min(Len(s), MaxNameLen)
        astr == SubSeq(s, 1, len)
    IN  IF \E i \in 1..len : ~IsAscii(astr[i])
        THEN [d |-> d, r |-> "CantAllocUtf8", name |-> <<NULL, 0>>]
        ELSE Val([b \in {bump_u8s(d, len)} |->
                 IF b.ptr = NULL
                 THEN [d |-> d, r |-> "OutOfMemory", name |-> <<NULL, 0>>]
                 ELSE [d |-> WriteBytes(b.d, b.ptr, astr), r |-> "Ok",
                       name |-> <<b.ptr, LenHash_from_bstr(astr)>>]])

\* DictionaryBump::bump_str: at most 31 bytes, lowercased, ASCII only
bump_str(d, s) ==
    LET len  == Min(Len(s), MaxNameLen)
        astr == SubSeq(s, 1, len)
        low  == [i \in 1..len |-> ToLower(astr[i])]
    IN  IF \E i \in 1..len : ~IsAscii(astr[i])
        THEN [d |-> d, r |-> "CantAllocUtf8", name |-> <<NULL, 0>>]
        ELSE Val([b \in {bump_u8s(d, len)} |->
                 IF b.ptr = NULL
                 THEN [d |-> d, r |-> "OutOfMemory", name |-> <<NULL, 0>>]
                 ELSE [d |-> WriteBytes(b.d, b.ptr, low), r |-> "Ok",
                       name |-> <<b.ptr, LenHash_from_bstr(low)>>]])

capacity(d) == d.end - d.start
used(d) == d.cur - d.start
contains(d, ptr) == ptr >= d.start /\ ptr < d.end

(***************************************************************************)
(* The input tokenizer (WordStrBuf): buf is the line as a sequence of      *)
(* items, [k |-> "w", b |-> bytes] a whitespace-delimited word and         *)
(* [k |-> "s", b |-> bytes] the text up to a closing quote; pos is the     *)
(* item under the cursor (0 before the first advance).                     *)
(***************************************************************************)
W(b) == [k |-> "w", b |-> b]
S(b) == [k |-> "s", b |-> b]
NoWord == <<>>

WordStrBuf_fill(line) == [buf |-> line, pos |-> 0]

\* WordStrBuf::advance
advance(inp) == [inp EXCEPT !.pos = Min(inp.pos + 1, Len(inp.buf) + 1)]

\* WordStrBuf::cur_word; the text of a string item read as a word ends in '"'
cur_word(inp) ==
    IF inp.pos >= 1 /\ inp.pos <= Len(inp.buf)
    THEN LET it == inp.buf[inp.pos]
         IN  IF it.k = "w" THEN it.b ELSE it.b \o <<34>>
    ELSE NoWord

\* WordStrBuf::advance_str: Ok only if the text up to a closing quote follows
advance_str(inp) ==
    LET n == inp.pos + 1
    IN  IF n <= Len(inp.buf) /\ inp.buf[n].k = "s"
        THEN [inp |-> [inp EXCEPT !.pos = n], ok |-> TRUE]
        ELSE [inp |-> [inp EXCEPT !.pos = Len(inp.buf) + 1], ok |-> FALSE]

\* WordStrBuf::cur_str_literal
cur_str_literal(inp) == inp.buf[inp.pos].b

(***************************************************************************)
(* The static builtin table handed to Forth::new, a subset of              *)
(* FULL_BUILTINS, and the code addresses of the word functions.            *)
(***************************************************************************)
Builtins ==
    << [name |-> <<43>>,                                        func |-> "add"],
       [name |-> <<47>>,                                        func |-> "div"],
       [name |-> <<109, 111, 100>>,                             func |-> "modu"],
       [name |-> <<47, 109, 111, 100>>,                         func |-> "div_mod"],
       [name |-> <<100, 117, 112>>,                             func |-> "dup"],
       [name |-> <<46>>,                                        func |-> "pop_print"],
       [name |-> <<58>>,                                        func |-> "colon"],
       [name |-> <<102, 111, 114, 103, 101, 116>>,              func |-> "forget"],
       [name |-> <<50, 100, 62, 50, 114>>,                      func |-> "data2_to_return2_stack"],
       [name |-> <<105>>,                                       func |-> "loop_i"],
       [name |-> <<100, 62, 114>>,                              func |-> "data_to_return_stack"],
       [name |-> <<114, 62, 100>>,                              func |-> "return_to_data_stack"],
       [name |-> <<33>>,                                        func |-> "var_store"],
       [name |-> <<48>>,                                        func |-> "zero_const"],
       [name |-> <<49>>,                                        func |-> "one_const"],
       [name |-> <<45>>,                                   func |-> "minus"],
       [name |-> <<42>>,                                   func |-> "mul"],
       [name |-> <<97, 98, 115>>,                          func |-> "abs"],
       [name |-> <<110, 101, 103, 97, 116, 101>>,          func |-> "negate"],
       [name |-> <<42, 47>>,                               func |-> "star_slash"],
       [name |-> <<42, 47, 109, 111, 100>>,                func |-> "star_slash_mod"],
       [name |-> <<115, 119, 97, 112>>,                    func |-> "swap"],
       [name |-> <<114, 111, 116>>,                        func |-> "rot"],
       [name |-> <<50, 115, 119, 97, 112>>,                func |-> "swap_2"],
       [name |-> <<40, 119, 114, 105, 116, 101, 45, 115, 116, 114, 41>>,
                                                                func |-> "write_str_lit"],
       [name |-> <<40, 106, 109, 112, 45, 100, 111, 108, 111, 111, 112, 41>>,
                                                                func |-> "jump_doloop"],
       [name |-> <<40, 106, 117, 109, 112, 45, 122, 101, 114, 111, 41>>,
                                                                func |-> "jump_if_zero"],
       [name |-> <<40, 106, 109, 112, 41>>,                     func |-> "jump"],
       [name |-> <<40, 108, 105, 116, 101, 114, 97, 108, 41>>,  func |-> "literal"] >>

Funcs == <<"interpret", "add", "div", "modu", "div_mod", "dup", "pop_print", "colon", "forget",
           "data2_to_return2_stack", "loop_i", "data_to_return_stack",
           "return_to_data_stack", "var_store", "zero_const",
           "one_const", "write_str_lit",
           "jump_doloop", "jump_if_zero", "jump", "literal", "host_word",
           "minus", "mul", "abs", "negate", "star_slash", "star_slash_mod", "swap", "rot",
           "swap_2">>

FnBase == 134250496
FnAddr(name) == FnBase + WordSize * ((CHOOSE i \in 1..Len(Funcs) : Funcs[i] = name) - 1)
IsFnAddr(a) == a >= FnBase /\ a < FnBase + WordSize * Len(Funcs) /\ (a - FnBase) % WordSize = 0
FnName(a) == Funcs[((a - FnBase) \div WordSize) + 1]

BuiltinAddr(i) == BuiltinsBase + (i - 1) * BuiltinEntrySize
IsBuiltinAddr(p) ==
    /\ p >= BuiltinsBase /\ p < BuiltinsBase + Len(Builtins) * BuiltinEntrySize
    /\ (p - BuiltinsBase) % BuiltinEntrySize = 0
BuiltinIndex(p) == ((p - BuiltinsBase) \div BuiltinEntrySize) + 1

\* the AsyncBuiltinEntry headers of the host's async table (A::BUILTINS)
AsyncBuiltins == << [name |-> <<115, 108, 101, 101, 112>>] >>
AsyncBase == 134234112
AsyncEntrySize == 12
AsyncAddr(i) == AsyncBase + (i - 1) * AsyncEntrySize
IsAsyncAddr(p) ==
    /\ p >= AsyncBase /\ p < AsyncBase + Len(AsyncBuiltins) * AsyncEntrySize
    /\ (p - AsyncBase) % AsyncEntrySize = 0
AsyncIndex(p) == ((p - AsyncBase) \div AsyncEntrySize) + 1

(***************************************************************************)
(* Entry headers.  A DictionaryEntry at p: name.ptr at p, name.len_hash at *)
(* p+4, kind at p+8, len at p+10, func at p+12, link at p+16, and the      *)
(* parameter field from p+20.                                              *)
(***************************************************************************)
EntryBytes(nameptr, lenhash, kind, len, func, link) ==
    LE4(nameptr) \o LE4(lenhash) \o LE2(kind) \o LE2(len) \o LE4(func) \o LE4(link)

\* the len_hash field of every static builtin name, computed at compile time
BuiltinLenHash == [i \in 1..Len(Builtins) |-> LenHash_from_bstr(Builtins[i].name)]

\* is p a pointer the VM may read an EntryHeader through
IsEntryPtr(d, p) ==
    \/ IsBuiltinAddr(p)
    \/ IsAsyncAddr(p)
    \/ /\ p % WordSize = 0
       /\ p >= d.start
       /\ p + EntrySize <= d.end

\* the EntryHeader (and DictionaryEntry fields) read through p
EntryAt(d, p) ==
    IF IsBuiltinAddr(p)
    THEN Val([i \in {BuiltinIndex(p)} |->
             [name |-> Builtins[i].name, lenhash |-> BuiltinLenHash[i],
              kind |-> KindStaticBuiltin, len |-> 0,
              func |-> FnAddr(Builtins[i].func), link |-> NULL]])
    ELSE IF IsAsyncAddr(p)
    THEN Val([nm \in {AsyncBuiltins[AsyncIndex(p)].name} |->
             [name |-> nm, lenhash |-> LenHash_from_bstr(nm),
              kind |-> KindAsyncBuiltin, len |-> 0, func |-> NULL, link |-> NULL]])
    ELSE Val([lh \in {ReadWord(d, p + 4)} |->
             [name |-> ReadBytes(d, ReadWord(d, p), LenHash_len(lh)),
              lenhash |-> lh,
              kind |-> ReadU16(d, p + 8), len |-> ReadU16(d, p + 10),
              func |-> ReadWord(d, p + 12), link |-> ReadWord(d, p + 16)]])

\* DictionaryEntry::pfa
pfa(p) == p + EntrySize

\* TmpFaStr::new_from / FaStr::new: the bytes as given, no case folding
TmpFaStr_new_from(word) ==
    Val([lh \in {LenHash_from_bstr(word)} |->
        [bytes |-> SubSeq(word, 1, LenHash_len(lh)), lenhash |-> lh]])

\* FaStr equality on the length and hash alone; NameIdentity rejects it
FaStr_eq_hash_only(lh1, bytes1, lh2, bytes2) ==
    LenHash_eq_ignore_bits(lh1, lh2)

\* impl PartialEq for FaStr
FaStr_eq(lh1, bytes1, lh2, bytes2) ==
    IF LenHash_eq_ignore_bits(lh1, lh2) THEN bytes1 = bytes2 ELSE FALSE

\* find_in_dict preferring the oldest entry of the name; LookupOrder
\* rejects it
RECURSIVE find_in_dict_from_oldest(_, _, _)
find_in_dict_from_oldest(d, ptr, fastr) ==
    IF ptr = NULL THEN NULL
    ELSE Val([de \in {EntryAt(d, ptr)} |->
         Val([older \in {find_in_dict_from_oldest(d, de.link, fastr)} |->
             IF older # NULL THEN older
             ELSE IF FaStr_eq(de.lenhash, de.name, fastr.lenhash, fastr.bytes)
             THEN ptr
             ELSE NULL])])

\* Forth::find_in_dict, walking the links from ptr
RECURSIVE find_in_dict_from(_, _, _)
find_in_dict_from(d, ptr, fastr) ==
    IF ptr = NULL THEN NULL
    ELSE Val([de \in {EntryAt(d, ptr)} |->
             IF FaStr_eq(de.lenhash, de.name, fastr.lenhash, fastr.bytes)
             THEN ptr
             ELSE find_in_dict_from(d, de.link, fastr)])

find_in_dict(f, fastr) == find_in_dict_from(f.dict_alloc, f.run_dict_tail, fastr)

\* Forth::find_in_bis: the first static builtin of that name, NULL if none
find_in_bis(f, fastr) ==
    Val([hits \in {{i \in 1..Len(Builtins) :
            FaStr_eq(BuiltinLenHash[i], Builtins[i].name,
                     fastr.lenhash, fastr.bytes)}} |->
            IF hits = {} THEN NULL
            ELSE BuiltinAddr(CHOOSE i \in hits : \A j \in hits : i <= j)])

\* Forth::find_word
find_word(f, word) ==
    Val([fastr \in {TmpFaStr_new_from(word)} |->
        Val([de \in {find_in_dict(f, fastr)} |->
            IF de # NULL THEN de ELSE find_in_bis(f, fastr)])])

\* Forth::add_bi_fastr
add_bi_fastr(f, name, bi) ==
    Val([b \in {bump(f.dict_alloc, WordSize, EntrySize)} |->
        IF b.r # "Ok" THEN R([f EXCEPT !.dict_alloc = b.d], b.r)
        ELSE R([f EXCEPT
                   !.dict_alloc = WriteBytes(b.d, b.ptr,
                       EntryBytes(name[1], name[2], KindRuntimeBuiltin, 0,
                                  bi, f.run_dict_tail)),
                   !.run_dict_tail = b.ptr],
               "Ok")])

\* Forth::add_builtin
add_builtin(f, name, bi) ==
    Val([s \in {bump_str(f.dict_alloc, name)} |->
        IF s.r # "Ok" THEN R([f EXCEPT !.dict_alloc = s.d], s.r)
        ELSE add_bi_fastr([f EXCEPT !.dict_alloc = s.d], s.name, bi)])

\* the tail of forget leaving the cursor where it is; ForgetUnlinks rejects it
forget_keep_cursor(d, addr) ==
    WriteBytes(d, addr, Zeros((d.cur - addr) * EntrySize))

\* the tail of forget moving the cursor to the name of the entry;
\* ForgetKeepsNameBytes rejects it
forget_rewind_to_name(d, addr) ==
    [WriteBytes(d, addr, Zeros((d.cur - addr) * EntrySize))
        EXCEPT !.cur = FromLE4(ReadBytes(d, addr, 4))]

\* the tail of Forth::forget: addr.write_bytes(0x00, len) through the
\* *mut DictionaryEntry, which counts len in entries and not in bytes, and
\* the move of the cursor to the entry
forget_rewind(d, addr) ==
    [WriteBytes(d, addr, Zeros((d.cur - addr) * EntrySize)) EXCEPT !.cur = addr]

\* forget answering for a static builtin as for a name found nowhere;
\* ForgetErrorsChangeNothing rejects it
forget_builtin_not_in_dict(f) ==
    Val([f1 \in {[f EXCEPT !.input = advance(f.input)]} |->
    Val([word \in {cur_word(f1.input)} |->
        IF word = NoWord THEN R(f1, "ForgetWithoutWordName")
        ELSE
        Val([word_tmp \in {TmpFaStr_new_from(word)} |->
        Val([defn \in {find_in_dict(f1, word_tmp)} |->
            IF defn = NULL THEN R(f1, "ForgetNotInDict")
            ELSE
            Val([f2 \in {[f1 EXCEPT !.run_dict_tail = EntryAt(f1.dict_alloc, defn).link]} |->
                IF ~(contains(f2.dict_alloc, defn) /\ defn <= f2.dict_alloc.cur)
                THEN R(f2, "InternalError")
                ELSE R([f2 EXCEPT !.dict_alloc = forget_rewind(f2.dict_alloc, defn)],
                       "Ok")])])])])])

\* forget leaving the head of the dictionary where it is when the word is
\* not the newest; ReferencesPointBack rejects it
forget_keep_newer(f) ==
    Val([f1 \in {[f EXCEPT !.input = advance(f.input)]} |->
    Val([word \in {cur_word(f1.input)} |->
        IF word = NoWord THEN R(f1, "ForgetWithoutWordName")
        ELSE
        Val([word_tmp \in {TmpFaStr_new_from(word)} |->
        Val([defn \in {find_in_dict(f1, word_tmp)} |->
            IF defn = NULL
            THEN IF find_in_bis(f1, word_tmp) # NULL
                 THEN R(f1, "CantForgetBuiltins")
                 ELSE R(f1, "ForgetNotInDict")
            ELSE
            Val([f2 \in {IF defn = f1.run_dict_tail
                         THEN [f1 EXCEPT !.run_dict_tail = EntryAt(f1.dict_alloc, defn).link]
                         ELSE f1} |->
                IF ~(contains(f2.dict_alloc, defn) /\ defn <= f2.dict_alloc.cur)
                THEN R(f2, "InternalError")
                ELSE R([f2 EXCEPT !.dict_alloc = forget_rewind(f2.dict_alloc, defn)],
                       "Ok")])])])])])

\* Forth::forget
forget(f) ==
    Val([f1 \in {[f EXCEPT !.input = advance(f.input)]} |->
    Val([word \in {cur_word(f1.input)} |->
        IF word = NoWord THEN R(f1, "ForgetWithoutWordName")
        ELSE
        Val([word_tmp \in {TmpFaStr_new_from(word)} |->
        Val([defn \in {find_in_dict(f1, word_tmp)} |->
            IF defn = NULL
            THEN IF find_in_bis(f1, word_tmp) # NULL
                 THEN R(f1, "CantForgetBuiltins")
                 ELSE R(f1, "ForgetNotInDict")
            ELSE
            Val([f2 \in {[f1 EXCEPT !.run_dict_tail = EntryAt(f1.dict_alloc, defn).link]} |->
                IF ~(contains(f2.dict_alloc, defn) /\ defn <= f2.dict_alloc.cur)
                THEN R(f2, "InternalError")
                ELSE R([f2 EXCEPT !.dict_alloc = forget_rewind(f2.dict_alloc, defn)],
                       "Ok")])])])])])

(***************************************************************************)
(* vm/mod.rs: lookup.                                                      *)
(***************************************************************************)
tSemicolon == <<59>>
tIf == <<105, 102>>
tElse == <<101, 108, 115, 101>>
tThen == <<116, 104, 101, 110>>
tDo == <<100, 111>>
tLoop == <<108, 111, 111, 112>>
tLParen == <<40>>
tLQuote == <<46, 34>>
tLiteralWord == <<40, 108, 105, 116, 101, 114, 97, 108, 41>>
tJumpZero == <<40, 106, 117, 109, 112, 45, 122, 101, 114, 111, 41>>
tJmp == <<40, 106, 109, 112, 41>>
tJmpDoLoop == <<40, 106, 109, 112, 45, 100, 111, 108, 111, 111, 112, 41>>
tWriteStr == <<40, 119, 114, 105, 116, 101, 45, 115, 116, 114, 41>>
t2d2r == <<50, 100, 62, 50, 114>>

IsDigit(ch) == ch >= 48 /\ ch <= 57

\* the digits s[i..] accumulated on the negative side, so that i32::MIN parses
RECURSIVE ParseNeg(_, _, _)
ParseNeg(s, i, v) ==
    IF i > Len(s) THEN [ok |-> TRUE, val |-> v]
    ELSE IF ~IsDigit(s[i]) THEN [ok |-> FALSE, val |-> 0]
    ELSE LET dg == s[i] - 48
         IN  IF v < -214748364 \/ (v = -214748364 /\ dg > 8)
             THEN [ok |-> FALSE, val |-> 0]
             ELSE ParseNeg(s, i + 1, v * 10 - dg)

\* Forth::parse_num: i32::from_str, an optional sign and decimal digits
parse_num(word) ==
    LET signed == Len(word) >= 1 /\ word[1] \in {43, 45}
        first  == IF signed THEN 2 ELSE 1
        neg    == Len(word) >= 1 /\ word[1] = 45
    IN  IF Len(word) < first THEN [ok |-> FALSE, val |-> 0]
        ELSE Val([p \in {ParseNeg(word, first, 0)} |->
                 IF ~p.ok THEN p
                 ELSE IF neg THEN p
                 ELSE IF p.val = I32Min THEN [ok |-> FALSE, val |-> 0]
                 ELSE [ok |-> TRUE, val |-> 0 - p.val]])

\* Forth::lookup
lookup(f, word) ==
    IF word = tSemicolon THEN [k |-> "Semicolon", v |-> 0]
    ELSE IF word = tIf THEN [k |-> "If", v |-> 0]
    ELSE IF word = tElse THEN [k |-> "Else", v |-> 0]
    ELSE IF word = tThen THEN [k |-> "Then", v |-> 0]
    ELSE IF word = tDo THEN [k |-> "Do", v |-> 0]
    ELSE IF word = tLoop THEN [k |-> "Loop", v |-> 0]
    ELSE IF word = tLParen THEN [k |-> "LParen", v |-> 0]
    ELSE IF word = tLQuote THEN [k |-> "LQuote", v |-> 0]
    ELSE Val([fastr \in {TmpFaStr_new_from(word)} |->
         Val([entry \in {find_in_dict(f, fastr)} |->
             IF entry # NULL THEN [k |-> "Dict", v |-> entry]
             ELSE Val([bis \in {find_in_bis(f, fastr)} |->
                      IF bis # NULL THEN [k |-> "Builtin", v |-> bis]
                      ELSE Val([num \in {parse_num(word)} |->
                               IF num.ok THEN [k |-> "Literal", v |-> num.val]
                               ELSE [k |-> "Err", v |-> 0]])])])])

(***************************************************************************)
(* vm/mod.rs: the compiler.  Every munch operator takes the VM f and the   *)
(* running length len and returns [f, len, r, n]: r is "Ok" with the u16   *)
(* result n, or the error.                                                 *)
(***************************************************************************)
MOk(f, len, n) == [f |-> f, len |-> len, r |-> "Ok", n |-> n]
MErr(f, len, e) == [f |-> f, len |-> len, r |-> e, n |-> 0]

\* self.dict_alloc.bump_write(Word)?, as a step of a munch operator
Emit(f, len, val) ==
    Val([b \in {bump_write(f.dict_alloc, val)} |->
        [f |-> [f EXCEPT !.dict_alloc = b.d], len |-> len, r |-> b.r, n |-> 0]])

\* the jump offsets munch_if and munch_do compute
IfThenOffset(delta) == delta + 1
\* the offset of if counted in bytes; JumpOffsetsInRange rejects it
IfElseOffsetBytes(delta) == (delta + 3) * WordSize
\* the offset of if landing on the jump that ends the first branch;
\* OneBranchRuns rejects it
IfElseOffsetOntoJump(delta) == delta + 1
IfElseOffset(delta) == delta + 3
ElseThenOffset(delta) == delta + 1
DoLoopOffset(delta) == 0 - (delta + 1)

EndsWithRParen(word) == word[Len(word)] = 41

\* Forth::munch_comment
RECURSIVE munch_comment(_, _)
munch_comment(f, len) ==
    Val([f1 \in {[f EXCEPT !.input = advance(f.input)]} |->
    Val([s \in {cur_word(f1.input)} |->
        IF s = NoWord THEN MOk(f1, len, 0)
        ELSE IF EndsWithRParen(s) THEN MOk(f1, len, 0)
        ELSE munch_comment(f1, len)])])

CeilWords(n) == (n + (WordSize - 1)) \div WordSize

\* munch_str counting only the whole cells of the string; LenCountsCells
\* rejects it
munch_str_whole_cells(f, len) ==
    Val([a \in {advance_str(f.input)} |->
    Val([f1 \in {[f EXCEPT !.input = a.inp]} |->
        IF ~a.ok THEN MErr(f1, len, "LQuoteMissingRQuote")
        ELSE
        Val([lit_str \in {cur_str_literal(a.inp)} |->
        Val([ws \in {find_word(f1, tWriteStr)} |->
            IF Len(lit_str) > U16Max THEN MErr(f1, len, "LiteralStringTooLong")
            ELSE IF ws = NULL THEN MErr(f1, len, "WordNotInDict")
            ELSE
            Val([e1 \in {Emit(f1, len, ws)} |-> IF e1.r # "Ok" THEN e1 ELSE
            Val([e2 \in {Emit(e1.f, len, Len(lit_str))} |-> IF e2.r # "Ok" THEN e2 ELSE
            Val([b \in {bump_u8s(e2.f.dict_alloc, Len(lit_str))} |->
                IF b.ptr = NULL THEN MErr(e2.f, len + 2, "OutOfMemory")
                ELSE MOk([e2.f EXCEPT !.dict_alloc = WriteBytes(b.d, b.ptr, lit_str)],
                         len + 2 + (Len(lit_str) \div WordSize),
                         2 + (Len(lit_str) \div WordSize))])])])])])])])

\* Forth::munch_str
munch_str(f, len) ==
    Val([a \in {advance_str(f.input)} |->
    Val([f1 \in {[f EXCEPT !.input = a.inp]} |->
        IF ~a.ok THEN MErr(f1, len, "LQuoteMissingRQuote")
        ELSE
        Val([lit_str \in {cur_str_literal(a.inp)} |->
        Val([ws \in {find_word(f1, tWriteStr)} |->
            IF Len(lit_str) > U16Max THEN MErr(f1, len, "LiteralStringTooLong")
            ELSE IF ws = NULL THEN MErr(f1, len, "WordNotInDict")
            ELSE
            Val([e1 \in {Emit(f1, len, ws)} |-> IF e1.r # "Ok" THEN e1 ELSE
            Val([e2 \in {Emit(e1.f, len, Len(lit_str))} |-> IF e2.r # "Ok" THEN e2 ELSE
            Val([b \in {bump_u8s(e2.f.dict_alloc, Len(lit_str))} |->
                IF b.ptr = NULL THEN MErr(e2.f, len + 2, "OutOfMemory")
                ELSE MOk([e2.f EXCEPT !.dict_alloc = WriteBytes(b.d, b.ptr, lit_str)],
                         len + 2 + CeilWords(Len(lit_str)),
                         2 + CeilWords(Len(lit_str)))])])])])])])])

RECURSIVE munch_one(_, _)
RECURSIVE munch_if(_, _)
RECURSIVE munch_do(_, _)
RECURSIVE munch_until(_, _, _)
RECURSIVE munch_else(_, _, _, _)

\* the loops of munch_if and munch_do: munch_one until a sentinel error is
\* raised; Ok(0) is the error eof of the enclosing structure
munch_until(f, len, eof) ==
    Val([m \in {munch_one(f, len)} |->
        IF m.r = "Ok" /\ m.n = 0 THEN MErr(m.f, m.len, eof)
        ELSE IF m.r = "Ok" THEN munch_until(m.f, m.len, eof)
        ELSE m])

\* Forth::munch_do
munch_do(f, len) ==
    Val([literal_cj \in {find_word(f, t2d2r)} |->
        IF literal_cj = NULL THEN MErr(f, len, "WordNotInDict")
        ELSE
        Val([e1 \in {Emit(f, len, literal_cj)} |-> IF e1.r # "Ok" THEN e1 ELSE
        Val([body \in {munch_until(e1.f, len + 1, "DoWithoutLoop")} |->
            IF body.r # "LoopBeforeDo" THEN body
            ELSE
            Val([dojmp \in {find_word(body.f, tJmpDoLoop)} |->
                IF dojmp = NULL THEN MErr(body.f, body.len, "WordNotInDict")
                ELSE
                Val([e2 \in {Emit(body.f, body.len, dojmp)} |-> IF e2.r # "Ok" THEN e2 ELSE
                Val([e3 \in {Emit(e2.f, body.len, DoLoopOffset(body.len - (len + 1)))} |-> IF e3.r # "Ok" THEN e3 ELSE
                    MOk(e3.f, body.len + 2, (body.len + 2) - len)])])])])])])

\* the write through the cj_offset / jmp_offset reference into the arena
Patch(f, addr, val) ==
    [f EXCEPT !.dict_alloc = WriteBytes(f.dict_alloc, addr, LE4(val))]

\* bump::<i32>() followed by the write of 0 through the returned pointer,
\* n is the pointer
BumpOffset(f, len) ==
    Val([b \in {bump(f.dict_alloc, WordSize, WordSize)} |->
        IF b.r # "Ok" THEN MErr([f EXCEPT !.dict_alloc = b.d], len, b.r)
        ELSE MOk([f EXCEPT !.dict_alloc = WriteBytes(b.d, b.ptr, LE4(0))], len, b.ptr)])

\* the else arm of munch_if, from the ElseBeforeIf sentinel on
munch_else(body, cj, len, if_start) ==
    Val([f3 \in {Patch(body.f, cj, IfElseOffset(body.len - if_start))} |->
    Val([jmp \in {find_word(f3, tJmp)} |->
        IF jmp = NULL THEN MErr(f3, body.len, "WordNotInDict")
        ELSE
        Val([e2 \in {Emit(f3, body.len, jmp)} |-> IF e2.r # "Ok" THEN e2 ELSE
        Val([jo \in {BumpOffset(e2.f, body.len)} |-> IF jo.r # "Ok" THEN jo ELSE
        Val([eb \in {munch_until(jo.f, body.len + 2, "IfElseWithoutThen")} |->
            IF eb.r = "ElseBeforeIf" THEN MErr(eb.f, eb.len, "DuplicateElse")
            ELSE IF eb.r # "ThenBeforeIf" THEN eb
            ELSE MOk(Patch(eb.f, jo.n, ElseThenOffset(eb.len - (body.len + 2))),
                     eb.len, eb.len - len)])])])])])

\* Forth::munch_if
munch_if(f, len) ==
    Val([literal_cj \in {find_word(f, tJumpZero)} |->
        IF literal_cj = NULL THEN MErr(f, len, "WordNotInDict")
        ELSE
        Val([e1 \in {Emit(f, len, literal_cj)} |-> IF e1.r # "Ok" THEN e1 ELSE
        Val([cj \in {BumpOffset(e1.f, len)} |-> IF cj.r # "Ok" THEN cj ELSE
        Val([body \in {munch_until(cj.f, len + 2, "IfWithoutThen")} |->
            IF body.r = "ThenBeforeIf"
            THEN MOk(Patch(body.f, cj.n, IfThenOffset(body.len - (len + 2))),
                     body.len, body.len - len)
            ELSE IF body.r = "ElseBeforeIf"
            THEN munch_else(body, cj.n, len, len + 2)
            ELSE body])])])])

\* Forth::munch_one
munch_one(f, len) ==
    Val([f1 \in {[f EXCEPT !.input = advance(f.input)]} |->
    Val([word \in {cur_word(f1.input)} |->
        IF word = NoWord THEN MOk(f1, len, 0)
        ELSE
        Val([l \in {lookup(f1, word)} |->
            CASE l.k = "Err" -> MErr(f1, len, "LookupFailed")
              [] l.k = "If" -> munch_if(f1, len)
              [] l.k = "Else" -> MErr(f1, len, "ElseBeforeIf")
              [] l.k = "Then" -> MErr(f1, len, "ThenBeforeIf")
              [] l.k = "Semicolon" -> MOk(f1, len, 0)
              [] l.k \in {"Dict", "Builtin"} ->
                    Val([e \in {Emit(f1, len, l.v)} |-> IF e.r # "Ok" THEN e ELSE MOk(e.f, len + 1, 1)])
              [] l.k = "Literal" ->
                    Val([literal_dict \in {find_word(f1, tLiteralWord)} |->
                        IF literal_dict = NULL THEN MErr(f1, len, "WordNotInDict")
                        ELSE
                        Val([e1 \in {Emit(f1, len, literal_dict)} |-> IF e1.r # "Ok" THEN e1 ELSE
                        Val([e2 \in {Emit(e1.f, len, l.v)} |-> IF e2.r # "Ok" THEN e2 ELSE
                            MOk(e2.f, len + 2, 2)])])])
              [] l.k = "Do" -> munch_do(f1, len)
              [] l.k = "Loop" -> MErr(f1, len, "LoopBeforeDo")
              [] l.k = "LParen" -> munch_comment(f1, len)
              [] l.k = "LQuote" -> munch_str(f1, len)])])])

\* the loop of Forth::colon after the header has been reserved at dict_base
RECURSIVE colon_loop(_, _, _, _, _)
\* the loop of colon taking the end of the line for a semicolon;
\* ColonFailKeeps rejects it
RECURSIVE colon_loop_link_at_eol(_, _, _, _, _)
colon_loop_link_at_eol(f, len, name, dict_base, old_mode) ==
    Val([m \in {munch_one(f, len)} |->
        IF m.r # "Ok" THEN R(m.f, m.r)
        ELSE IF m.n # 0 THEN colon_loop_link_at_eol(m.f, m.len, name, dict_base, old_mode)
        ELSE IF cur_word(m.f.input) \in {tSemicolon, NoWord}
        THEN R([m.f EXCEPT
                   !.dict_alloc = WriteBytes(m.f.dict_alloc, dict_base,
                       EntryBytes(name[1], name[2], KindDictionary, m.len,
                                  FnAddr("interpret"), m.f.run_dict_tail)),
                   !.run_dict_tail = dict_base,
                   !.mode = old_mode],
               IF cur_word(m.f.input) = NoWord
               THEN "ColonCompileMissingSemicolon" ELSE "Ok")
        ELSE colon_loop_link_at_eol(m.f, m.len, name, dict_base, old_mode)])

\* the loop of colon going on after an else, a then or a loop that nothing
\* encloses; StrayCloserRefused rejects it
colon_loop_skip_stray(f, len, name, dict_base, old_mode) ==
    Val([m \in {munch_one(f, len)} |->
        IF m.r \in {"ElseBeforeIf", "ThenBeforeIf", "LoopBeforeDo"}
        THEN colon_loop(m.f, m.len, name, dict_base, old_mode)
        ELSE IF m.r # "Ok" THEN R(m.f, m.r)
        ELSE IF m.n # 0 THEN colon_loop(m.f, m.len, name, dict_base, old_mode)
        ELSE IF cur_word(m.f.input) = tSemicolon
        THEN R([m.f EXCEPT
                   !.dict_alloc = WriteBytes(m.f.dict_alloc, dict_base,
                       EntryBytes(name[1], name[2], KindDictionary, m.len,
                                  FnAddr("interpret"), m.f.run_dict_tail)),
                   !.run_dict_tail = dict_base,
                   !.mode = old_mode],
               "Ok")
        ELSE IF cur_word(m.f.input) # NoWord
        THEN colon_loop(m.f, m.len, name, dict_base, old_mode)
        ELSE R(m.f, "ColonCompileMissingSemicolon")])

colon_loop(f, len, name, dict_base, old_mode) ==
    Val([m \in {munch_one(f, len)} |->
        IF m.r # "Ok" THEN R(m.f, m.r)
        ELSE IF m.n # 0 THEN colon_loop(m.f, m.len, name, dict_base, old_mode)
        ELSE IF cur_word(m.f.input) = tSemicolon
        THEN R([m.f EXCEPT
                   !.dict_alloc = WriteBytes(m.f.dict_alloc, dict_base,
                       EntryBytes(name[1], name[2], KindDictionary, m.len,
                                  FnAddr("interpret"), m.f.run_dict_tail)),
                   !.run_dict_tail = dict_base,
                   !.mode = old_mode],
               "Ok")
        ELSE IF cur_word(m.f.input) # NoWord
        THEN colon_loop(m.f, m.len, name, dict_base, old_mode)
        ELSE R(m.f, "ColonCompileMissingSemicolon")])

\* Forth::colon
colon(f) ==
    Val([f1 \in {[f EXCEPT !.input = advance(f.input)]} |->
    Val([name \in {cur_word(f1.input)} |->
        IF name = NoWord THEN R(f1, "ColonCompileMissingName")
        ELSE
        Val([f2 \in {[f1 EXCEPT !.mode = "Compile"]} |->
        Val([s \in {bump_str(f2.dict_alloc, name)} |->
            IF s.r # "Ok" THEN R([f2 EXCEPT !.dict_alloc = s.d], s.r)
            ELSE
            Val([b \in {bump(s.d, WordSize, EntrySize)} |->
                IF b.r # "Ok" THEN R([f2 EXCEPT !.dict_alloc = b.d], b.r)
                ELSE colon_loop([f2 EXCEPT !.dict_alloc = b.d], 0, s.name,
                                b.ptr, f1.mode)])])])])])

(***************************************************************************)
(* The bounded stacks (Stack<T>), the output buffer (OutputBuf) and the    *)
(* CallContext accessors the builtins use.                                 *)
(***************************************************************************)
Top(s) == s[Len(s)]
Pop(s) == SubSeq(s, 1, Len(s) - 1)
\* Stack::try_peek_back_n: the n-th cell below the top
PeekBack(s, n) == s[Len(s) - n]

\* OutputBuf::push_bstr / push_str
push_bstr(f, bs) ==
    IF Len(f.output) + Len(bs) > OutSize THEN R(f, "OutputFull")
    ELSE R([f EXCEPT !.output = f.output \o bs], "Ok")

\* CallContext::get_word_at_cur_idx, get_next_word: the cell at index i of
\* the parameter field of the frame's entry
CellAt(f, ctx, i) == ReadWord(f.dict_alloc, pfa(ctx.eh) + i * WordSize)

\* CallContext::offset: the new idx, or -1 when it does not fit a u16
offset(ctx, k) ==
    LET new_idx == ctx.idx + k
    IN  IF new_idx < 0 \/ new_idx > U16Max THEN -1 ELSE new_idx

\* parent.offset(k)? on the frame below the top of the call stack
ParentOffset(f, k) ==
    LET n      == Len(f.call_stack)
        parent == f.call_stack[n - 1]
        new    == offset(parent, k)
    IN  IF new < 0 THEN R(f, "BadCfaOffset")
        ELSE R([f EXCEPT !.call_stack[n - 1].idx = new], "Ok")

(***************************************************************************)
(* 32-bit arithmetic and decimal formatting.                               *)
(***************************************************************************)
wrapping_add(a, b) ==
    IF a >= 0 /\ b > I32Max - a THEN ((a - I32Max) - 1) + (b + I32Min)
    ELSE IF a < 0 /\ b < I32Min - a THEN ((a + I32Max) + 1) + ((b + I32Max) + 1)
    ELSE a + b

Abs(a) == IF a < 0 THEN 0 - a ELSE a
\* i32 division truncates toward zero (divisor non-zero, no overflow)
\* computed on the negative side, where the magnitude of i32::MIN fits
TruncDiv(b, a) ==
    IF a = I32Min THEN (IF b = I32Min THEN 1 ELSE 0)
    ELSE LET d  == Abs(a)
             nb == IF b > 0 THEN 0 - b ELSE b
             nq == (nb + (d - 1)) \div d
         IN  IF (b >= 0) = (a > 0) THEN 0 - nq ELSE nq

\* the decimal digits of -(w + 1), w >= 0, most significant first
RECURSIVE DigitsOfNegSucc(_)
DigitsOfNegSucc(w) ==
    LET dg == ((w % 10) + 1) % 10
        q  == (w \div 10) + (IF w % 10 = 9 THEN 1 ELSE 0)
    IN  IF q = 0 THEN <<48 + dg>> ELSE DigitsOfNegSucc(q - 1) \o <<48 + dg>>

\* the text of "{}" for an i32
Dec(v) ==
    IF v = 0 THEN <<48>>
    ELSE IF v > 0 THEN DigitsOfNegSucc(v - 1)
    ELSE <<45>> \o DigitsOfNegSucc(0 - (v + 1))

(***************************************************************************)
(* vm/builtins.rs: the word functions.  Each takes the VM and returns      *)
(* [f, r] with r = "Ok" or the error.                                      *)
(***************************************************************************)
\* Forth::add
add(f) ==
    IF Len(f.data_stack) < 1 THEN R(f, "StackEmpty")
    ELSE IF Len(f.data_stack) < 2
    THEN R([f EXCEPT !.data_stack = Pop(f.data_stack)], "StackEmpty")
    ELSE LET a == Top(f.data_stack)
             b == PeekBack(f.data_stack, 1)
         IN  R([f EXCEPT !.data_stack = Append(Pop(Pop(f.data_stack)),
                                               wrapping_add(a, b))], "Ok")

\* Forth::div
div(f) ==
    IF Len(f.data_stack) < 1 THEN R(f, "StackEmpty")
    ELSE IF Len(f.data_stack) < 2
    THEN R([f EXCEPT !.data_stack = Pop(f.data_stack)], "StackEmpty")
    ELSE LET a  == Top(f.data_stack)
             b  == PeekBack(f.data_stack, 1)
             f1 == [f EXCEPT !.data_stack = Pop(Pop(f.data_stack))]
         IN  IF a = 0 THEN R(f1, "DivideByZero")
             ELSE IF b = I32Min /\ a = -1 THEN R(f1, "Panic")
             ELSE R([f1 EXCEPT !.data_stack = Append(f1.data_stack, TruncDiv(b, a))],
                    "Ok")

\* the i32 remainder, of the sign of the dividend
TruncRem(b, a) == b - a * TruncDiv(b, a)

\* Forth::modu
modu(f) ==
    IF Len(f.data_stack) < 1 THEN R(f, "StackEmpty")
    ELSE IF Len(f.data_stack) < 2
    THEN R([f EXCEPT !.data_stack = Pop(f.data_stack)], "StackEmpty")
    ELSE LET a  == Top(f.data_stack)
             b  == PeekBack(f.data_stack, 1)
             f1 == [f EXCEPT !.data_stack = Pop(Pop(f.data_stack))]
         IN  IF a = 0 THEN R(f1, "DivideByZero")
             ELSE IF b = I32Min /\ a = -1 THEN R(f1, "Panic")
             ELSE R([f1 EXCEPT !.data_stack = Append(f1.data_stack, TruncRem(b, a))],
                    "Ok")

\* /mod giving 0 and 0 for a divisor 0; DivideByZeroReturned rejects it
div_mod_zero_for_zero(f) ==
    IF Len(f.data_stack) < 1 THEN R(f, "StackEmpty")
    ELSE IF Len(f.data_stack) < 2
    THEN R([f EXCEPT !.data_stack = Pop(f.data_stack)], "StackEmpty")
    ELSE LET a  == Top(f.data_stack)
             b  == PeekBack(f.data_stack, 1)
             f1 == [f EXCEPT !.data_stack = Pop(Pop(f.data_stack))]
         IN  IF a = 0 THEN R([f1 EXCEPT !.data_stack = f1.data_stack \o <<0, 0>>], "Ok")
             ELSE IF b = I32Min /\ a = -1 THEN R(f1, "Panic")
             ELSE R([f1 EXCEPT !.data_stack =
                         f1.data_stack \o <<TruncRem(b, a), TruncDiv(b, a)>>],
                    "Ok")

\* Forth::div_mod
div_mod(f) ==
    IF Len(f.data_stack) < 1 THEN R(f, "StackEmpty")
    ELSE IF Len(f.data_stack) < 2
    THEN R([f EXCEPT !.data_stack = Pop(f.data_stack)], "StackEmpty")
    ELSE LET a  == Top(f.data_stack)
             b  == PeekBack(f.data_stack, 1)
             f1 == [f EXCEPT !.data_stack = Pop(Pop(f.data_stack))]
         IN  IF a = 0 THEN R(f1, "DivideByZero")
             ELSE IF b = I32Min /\ a = -1 THEN R(f1, "Panic")
             ELSE R([f1 EXCEPT !.data_stack =
                         f1.data_stack \o <<TruncRem(b, a), TruncDiv(b, a)>>],
                    "Ok")

\* i32::wrapping_neg, i32::wrapping_abs and i32::wrapping_sub
wrapping_neg(a) == IF a = I32Min THEN I32Min ELSE 0 - a
wrapping_abs(a) == IF a < 0 THEN wrapping_neg(a) ELSE a
wrapping_sub(b, a) ==
    IF a = I32Min THEN wrapping_add(b, I32Min) ELSE wrapping_add(b, 0 - a)

\* the negation of a two's complement number given as little-endian bytes
RECURSIVE NegBytesFrom(_, _, _)
NegBytesFrom(bs, i, carry) ==
    IF i > Len(bs) THEN <<>>
    ELSE LET t == (255 - bs[i]) + carry
         IN  <<t % 256>> \o NegBytesFrom(bs, i + 1, t \div 256)
NegBytes(bs) == NegBytesFrom(bs, 1, 1)

\* the bytes of the magnitude of an i32, an unsigned number up to 2^31
MagBytes(v) == IF v < 0 THEN NegBytes(LE4(v)) ELSE LE4(v)

\* the sum of the products of the bytes of x and y that fall on byte k
RECURSIVE ColumnFrom(_, _, _, _)
ColumnFrom(x, y, k, i) ==
    IF i > Len(x) THEN 0
    ELSE (IF (k + 1) - i \in 1..Len(y) THEN x[i] * y[(k + 1) - i] ELSE 0)
             + ColumnFrom(x, y, k, i + 1)

\* the low n bytes of the product of x and y
RECURSIVE MulBytesFrom(_, _, _, _, _)
MulBytesFrom(x, y, n, k, carry) ==
    IF k > n THEN <<>>
    ELSE LET t == ColumnFrom(x, y, k, 1) + carry
         IN  <<t % 256>> \o MulBytesFrom(x, y, n, k + 1, t \div 256)
MulBytes(x, y, n) == MulBytesFrom(x, y, n, 1, 0)

\* i32::wrapping_mul
wrapping_mul(a, b) == FromLE4(MulBytes(LE4(a), LE4(b), 4))

\* bit k, from 0, of little-endian bytes
BitOf(bs, k) == (bs[(k \div 8) + 1] \div (2 ^ (k % 8))) % 2

\* one step of the long division by the magnitude -nd: st.nr is minus the
\* remainder so far, st.q the bits 0..31 of the quotient, b the next bit of
\* the dividend, bit k
DivStep(st, nd, k, b) ==
    Val([ge \in {st.nr - b <= nd - st.nr} |->
        [nr |-> IF ge THEN (st.nr - b) - (nd - st.nr) ELSE st.nr + (st.nr - b),
         q  |-> IF k < 32 THEN [st.q EXCEPT ![k + 1] = IF ge THEN 1 ELSE 0] ELSE st.q]])

\* the steps for the bits i..0 of byte j, from 0, of the dividend
RECURSIVE DivBits(_, _, _, _, _)
DivBits(bs, j, i, nd, st) ==
    IF i < 0 THEN st
    ELSE Val([st1 \in {DivStep(st, nd, 8 * j + i, BitOf(bs, 8 * j + i))} |->
             DivBits(bs, j, i - 1, nd, st1)])

\* the long division of the magnitude bs by the magnitude -nd, from byte j
\* down
RECURSIVE DivMag(_, _, _, _)
DivMag(bs, j, nd, st) ==
    IF j < 0 THEN st
    ELSE Val([st1 \in {DivBits(bs, j, 7, nd, st)} |-> DivMag(bs, j - 1, nd, st1)])

\* the 4 little-endian bytes of 32 bits, the lowest first
BitsToLE4(q) ==
    [j \in 1..4 |->
        LET o == 8 * (j - 1)
        IN  q[o + 1] + 2 * q[o + 2] + 4 * q[o + 3] + 8 * q[o + 4] + 16 * q[o + 5]
                + 32 * q[o + 6] + 64 * q[o + 7] + 128 * q[o + 8]]

\* (n1 as i64 * n2 as i64) / n3 as i64 and % n3 as i64, each `as i32`, for
\* n3 # 0: the division truncates toward zero, the remainder has the sign
\* of the product, the cast keeps the low 32 bits
MulDiv64(n1, n2, n3) ==
    LET mag  == MulBytes(MagBytes(n1), MagBytes(n2), 8)
        neg  == (n1 < 0) # (n2 < 0)
        dm   == DivMag(mag, 7, IF n3 > 0 THEN 0 - n3 ELSE n3,
                       [nr |-> 0, q |-> [i \in 1..32 |-> 0]])
        qmag == FromLE4(BitsToLE4(dm.q))
    IN  [quo |-> IF neg # (n3 < 0) THEN wrapping_neg(qmag) ELSE qmag,
         rem |-> IF neg THEN dm.nr ELSE 0 - dm.nr]

\* Forth::minus
minus(f) ==
    IF Len(f.data_stack) < 1 THEN R(f, "StackEmpty")
    ELSE IF Len(f.data_stack) < 2
    THEN R([f EXCEPT !.data_stack = Pop(f.data_stack)], "StackEmpty")
    ELSE LET a == Top(f.data_stack)
             b == PeekBack(f.data_stack, 1)
         IN  R([f EXCEPT !.data_stack = Append(Pop(Pop(f.data_stack)),
                                               wrapping_sub(b, a))], "Ok")

\* Forth::mul
mul(f) ==
    IF Len(f.data_stack) < 1 THEN R(f, "StackEmpty")
    ELSE IF Len(f.data_stack) < 2
    THEN R([f EXCEPT !.data_stack = Pop(f.data_stack)], "StackEmpty")
    ELSE LET a == Top(f.data_stack)
             b == PeekBack(f.data_stack, 1)
         IN  R([f EXCEPT !.data_stack = Append(Pop(Pop(f.data_stack)),
                                               wrapping_mul(a, b))], "Ok")

\* Forth::abs
abs(f) ==
    IF Len(f.data_stack) < 1 THEN R(f, "StackEmpty")
    ELSE R([f EXCEPT !.data_stack = Append(Pop(f.data_stack),
                                           wrapping_abs(Top(f.data_stack)))], "Ok")

\* Forth::negate
negate(f) ==
    IF Len(f.data_stack) < 1 THEN R(f, "StackEmpty")
    ELSE R([f EXCEPT !.data_stack = Append(Pop(f.data_stack),
                                           wrapping_neg(Top(f.data_stack)))], "Ok")

\* Forth::star_slash: i64::wrapping_div panics when the divisor is 0
star_slash(f) ==
    IF Len(f.data_stack) < 3 THEN R([f EXCEPT !.data_stack = <<>>], "StackEmpty")
    ELSE LET n3 == Top(f.data_stack)
             n2 == PeekBack(f.data_stack, 1)
             n1 == PeekBack(f.data_stack, 2)
             f1 == [f EXCEPT !.data_stack = Pop(Pop(Pop(f.data_stack)))]
         IN  IF n3 = 0 THEN R(f1, "Panic")
             ELSE R([f1 EXCEPT !.data_stack =
                         Append(f1.data_stack, MulDiv64(n1, n2, n3).quo)], "Ok")

\* Forth::star_slash_mod: the / of i64 panics when the divisor is 0
star_slash_mod(f) ==
    IF Len(f.data_stack) < 3 THEN R([f EXCEPT !.data_stack = <<>>], "StackEmpty")
    ELSE LET n3 == Top(f.data_stack)
             n2 == PeekBack(f.data_stack, 1)
             n1 == PeekBack(f.data_stack, 2)
             f1 == [f EXCEPT !.data_stack = Pop(Pop(Pop(f.data_stack)))]
         IN  IF n3 = 0 THEN R(f1, "Panic")
             ELSE Val([md \in {MulDiv64(n1, n2, n3)} |->
                      R([f1 EXCEPT !.data_stack = f1.data_stack \o <<md.rem, md.quo>>],
                        "Ok")])

\* Forth::swap: the cells are popped one by one, an empty stack ends the
\* word with those popped before gone
swap(f) ==
    IF Len(f.data_stack) < 2 THEN R([f EXCEPT !.data_stack = <<>>], "StackEmpty")
    ELSE LET a == Top(f.data_stack)
             b == PeekBack(f.data_stack, 1)
         IN  R([f EXCEPT !.data_stack = Pop(Pop(f.data_stack)) \o <<a, b>>], "Ok")

\* rot looking at the depth of the stack before it pops;
\* UnderflowPopsOperands rejects it
rot_depth_first(f) ==
    IF Len(f.data_stack) < 3 THEN R(f, "StackEmpty")
    ELSE LET n1 == Top(f.data_stack)
             n2 == PeekBack(f.data_stack, 1)
             n3 == PeekBack(f.data_stack, 2)
         IN  R([f EXCEPT !.data_stack = Pop(Pop(Pop(f.data_stack))) \o <<n2, n1, n3>>],
               "Ok")

\* Forth::rot
rot(f) ==
    IF Len(f.data_stack) < 3 THEN R([f EXCEPT !.data_stack = <<>>], "StackEmpty")
    ELSE LET n1 == Top(f.data_stack)
             n2 == PeekBack(f.data_stack, 1)
             n3 == PeekBack(f.data_stack, 2)
         IN  R([f EXCEPT !.data_stack = Pop(Pop(Pop(f.data_stack))) \o <<n2, n1, n3>>],
               "Ok")

\* Forth::swap_2
swap_2(f) ==
    IF Len(f.data_stack) < 4 THEN R([f EXCEPT !.data_stack = <<>>], "StackEmpty")
    ELSE LET a == Top(f.data_stack)
             b == PeekBack(f.data_stack, 1)
             c == PeekBack(f.data_stack, 2)
             d == PeekBack(f.data_stack, 3)
         IN  R([f EXCEPT !.data_stack =
                    Pop(Pop(Pop(Pop(f.data_stack)))) \o <<b, a, d, c>>], "Ok")

\* Forth::zero_const and Forth::one_const
PushConst(f, val) ==
    IF Len(f.data_stack) >= DStackSize THEN R(f, "StackFull")
    ELSE R([f EXCEPT !.data_stack = Append(f.data_stack, val)], "Ok")
zero_const(f) == PushConst(f, 0)
one_const(f) == PushConst(f, 1)

\* Forth::dup
dup(f) ==
    IF Len(f.data_stack) < 1 THEN R(f, "StackEmpty")
    ELSE IF Len(f.data_stack) >= DStackSize THEN R(f, "StackFull")
    ELSE R([f EXCEPT !.data_stack = Append(f.data_stack, Top(f.data_stack))], "Ok")

\* Forth::pop_print
pop_print(f) ==
    IF Len(f.data_stack) < 1 THEN R(f, "StackEmpty")
    ELSE push_bstr([f EXCEPT !.data_stack = Pop(f.data_stack)],
                   Dec(Top(f.data_stack)) \o <<32>>)

\* Forth::return_to_data_stack
return_to_data_stack(f) ==
    IF Len(f.return_stack) < 1 THEN R(f, "StackEmpty")
    ELSE IF Len(f.data_stack) >= DStackSize
    THEN R([f EXCEPT !.return_stack = Pop(f.return_stack)], "StackFull")
    ELSE R([f EXCEPT !.return_stack = Pop(f.return_stack),
                     !.data_stack = Append(f.data_stack, Top(f.return_stack))], "Ok")

\* Forth::data_to_return_stack
data_to_return_stack(f) ==
    IF Len(f.data_stack) < 1 THEN R(f, "StackEmpty")
    ELSE IF Len(f.return_stack) >= RStackSize
    THEN R([f EXCEPT !.data_stack = Pop(f.data_stack)], "StackFull")
    ELSE R([f EXCEPT !.data_stack = Pop(f.data_stack),
                     !.return_stack = Append(f.return_stack, Top(f.data_stack))], "Ok")

\* Forth::data2_to_return2_stack
data2_to_return2_stack(f) ==
    IF Len(f.data_stack) < 1 THEN R(f, "StackEmpty")
    ELSE IF Len(f.data_stack) < 2
    THEN R([f EXCEPT !.data_stack = Pop(f.data_stack)], "StackEmpty")
    ELSE LET a  == Top(f.data_stack)
             b  == PeekBack(f.data_stack, 1)
             f1 == [f EXCEPT !.data_stack = Pop(Pop(f.data_stack))]
         IN  IF Len(f1.return_stack) >= RStackSize THEN R(f1, "StackFull")
             ELSE IF Len(f1.return_stack) + 1 >= RStackSize
             THEN R([f1 EXCEPT !.return_stack = Append(f1.return_stack, b)], "StackFull")
             ELSE R([f1 EXCEPT !.return_stack = f1.return_stack \o <<b, a>>], "Ok")

\* Forth::loop_i
loop_i(f) ==
    IF Len(f.return_stack) < 1 THEN R(f, "StackEmpty")
    ELSE IF Len(f.data_stack) >= DStackSize THEN R(f, "StackFull")
    ELSE R([f EXCEPT !.data_stack = Append(f.data_stack, Top(f.return_stack))], "Ok")

\* Forth::var_store: a raw write of the cell through the popped address
var_store(f) ==
    IF Len(f.data_stack) < 1 THEN R(f, "StackEmpty")
    ELSE IF Len(f.data_stack) < 2
    THEN R([f EXCEPT !.data_stack = Pop(f.data_stack)], "StackEmpty")
    ELSE LET w_addr == Top(f.data_stack)
             w_val  == PeekBack(f.data_stack, 1)
         IN  R([f EXCEPT !.data_stack = Pop(Pop(f.data_stack)),
                         !.dict_alloc = WriteBytes(f.dict_alloc, w_addr, LE4(w_val))],
               "Ok")

\* Forth::skip_literal
skip_literal(f) ==
    IF Len(f.call_stack) < 2 THEN R(f, "StackEmpty")
    ELSE ParentOffset(f, 1)

\* Forth::jump
jump(f) ==
    IF Len(f.call_stack) < 2 THEN R(f, "StackEmpty")
    ELSE LET parent == PeekBack(f.call_stack, 1)
         IN  IF parent.idx + 1 >= parent.len THEN R(f, "BadCfaOffset")
             ELSE ParentOffset(f, CellAt(f, parent, parent.idx + 1))

\* Forth::jump_if_zero
jump_if_zero(f) ==
    IF Len(f.data_stack) < 1 THEN R(f, "StackEmpty")
    ELSE LET do_jmp == Top(f.data_stack) = 0
             f1     == [f EXCEPT !.data_stack = Pop(f.data_stack)]
         IN  IF do_jmp THEN jump(f1) ELSE skip_literal(f1)

\* jump_doloop comparing the index with the limit before it counts up;
\* LoopRunsLimitMinusStart rejects it
jump_doloop_compare_first(f) ==
    IF Len(f.return_stack) < 1 THEN R(f, "StackEmpty")
    ELSE IF Len(f.return_stack) < 2
    THEN R([f EXCEPT !.return_stack = Pop(f.return_stack)], "StackEmpty")
    ELSE LET a      == Top(f.return_stack)
             b      == PeekBack(f.return_stack, 1)
             ctr    == a + 1
             do_jmp == a # b
         IN  IF do_jmp
             THEN jump([f EXCEPT !.return_stack = Append(Pop(f.return_stack), ctr)])
             ELSE skip_literal([f EXCEPT !.return_stack = Pop(Pop(f.return_stack))])

\* Forth::jump_doloop
jump_doloop(f) ==
    IF Len(f.return_stack) < 1 THEN R(f, "StackEmpty")
    ELSE IF Len(f.return_stack) < 2
    THEN R([f EXCEPT !.return_stack = Pop(f.return_stack)], "StackEmpty")
    ELSE LET a      == Top(f.return_stack)
             b      == PeekBack(f.return_stack, 1)
             ctr    == a + 1
             do_jmp == ctr # b
         IN  IF do_jmp
             THEN jump([f EXCEPT !.return_stack = Append(Pop(f.return_stack), ctr)])
             ELSE skip_literal([f EXCEPT !.return_stack = Pop(Pop(f.return_stack))])

\* literal without the advance of the caller over the literal's cell;
\* CompileInterpretDuality rejects it
literal_no_advance(f) ==
    IF Len(f.call_stack) < 2 THEN R(f, "StackEmpty")
    ELSE LET parent == PeekBack(f.call_stack, 1)
         IN  IF parent.idx + 1 >= parent.len THEN R(f, "BadCfaOffset")
             ELSE IF Len(f.data_stack) >= DStackSize THEN R(f, "StackFull")
             ELSE R([f EXCEPT !.data_stack =
                        Append(f.data_stack, CellAt(f, parent, parent.idx + 1))],
                    "Ok")

\* Forth::literal
literal(f) ==
    IF Len(f.call_stack) < 2 THEN R(f, "StackEmpty")
    ELSE LET parent == PeekBack(f.call_stack, 1)
         IN  IF parent.idx + 1 >= parent.len THEN R(f, "BadCfaOffset")
             ELSE Val([o \in {ParentOffset(f, 1)} |-> IF o.r # "Ok" THEN o ELSE
                      IF Len(o.f.data_stack) >= DStackSize THEN R(o.f, "StackFull")
                      ELSE R([o.f EXCEPT !.data_stack =
                                 Append(o.f.data_stack,
                                        CellAt(f, parent, parent.idx + 1))],
                             "Ok")])

\* Forth::write_str_lit
write_str_lit(f) ==
    IF Len(f.call_stack) < 2 THEN R(f, "StackEmpty")
    ELSE LET parent == PeekBack(f.call_stack, 1)
         IN  IF parent.idx + 1 >= parent.len THEN R(f, "BadCfaOffset")
             ELSE
             Val([len \in {CellAt(f, parent, parent.idx + 1)} |->
                 IF len < 0 \/ len > U16Max THEN R(f, "LiteralStringTooLong")
                 ELSE IF parent.idx + 1 + (1 + CeilWords(len)) > parent.len
                 THEN R(f, "BadCfaOffset")
                 ELSE
                 Val([o \in {push_bstr(f, ReadBytes(f.dict_alloc,
                                   pfa(parent.eh) + (parent.idx + 2) * WordSize, len))} |-> IF o.r # "Ok" THEN o ELSE ParentOffset(o.f, 1 + CeilWords(len))])])

\* a host word registered with add_builtin: no effect on the VM
host_word(f) == R(f, "Ok")

\* the call (func)(self) for every function but interpret
CallBuiltin(f, fn) ==
    CASE fn = "add" -> add(f)
      [] fn = "div" -> div(f)
      [] fn = "modu" -> modu(f)
      [] fn = "div_mod" -> div_mod(f)
      [] fn = "dup" -> dup(f)
      [] fn = "pop_print" -> pop_print(f)
      [] fn = "colon" -> colon(f)
      [] fn = "forget" -> forget(f)
      [] fn = "data2_to_return2_stack" -> data2_to_return2_stack(f)
      [] fn = "loop_i" -> loop_i(f)
      [] fn = "data_to_return_stack" -> data_to_return_stack(f)
      [] fn = "return_to_data_stack" -> return_to_data_stack(f)
      [] fn = "var_store" -> var_store(f)
      [] fn = "zero_const" -> zero_const(f)
      [] fn = "one_const" -> one_const(f)
      [] fn = "write_str_lit" -> write_str_lit(f)
      [] fn = "jump_doloop" -> jump_doloop(f)
      [] fn = "jump_if_zero" -> jump_if_zero(f)
      [] fn = "jump" -> jump(f)
      [] fn = "literal" -> literal(f)
      [] fn = "host_word" -> host_word(f)
      [] fn = "minus" -> minus(f)
      [] fn = "mul" -> mul(f)
      [] fn = "abs" -> abs(f)
      [] fn = "negate" -> negate(f)
      [] fn = "star_slash" -> star_slash(f)
      [] fn = "star_slash_mod" -> star_slash_mod(f)
      [] fn = "swap" -> swap(f)
      [] fn = "rot" -> rot(f)
      [] fn = "swap_2" -> swap_2(f)

(***************************************************************************)
(* The VM as one record, and the driver steps.                             *)
(***************************************************************************)
VM == [mode |-> mode, data_stack |-> data_stack, return_stack |-> return_stack,
       call_stack |-> call_stack, dict_alloc |-> dict_alloc,
       run_dict_tail |-> run_dict_tail, input |-> input, output |-> output]

SetVM(f) ==
    /\ mode' = f.mode
    /\ data_stack' = f.data_stack
    /\ return_stack' = f.return_stack
    /\ call_stack' = f.call_stack
    /\ dict_alloc' = f.dict_alloc
    /\ run_dict_tail' = f.run_dict_tail
    /\ input' = f.input
    /\ output' = f.output

tOkLine == <<111, 107, 46, 10>>

\* one turn of the loop of Forth::process_line up to the call of the word:
\* act is "Done" at the end of the line, "Execute" when a frame was pushed
\* and its function is to be called, "Continue" otherwise
process_token(f) ==
    Val([f1 \in {[f EXCEPT !.input = advance(f.input)]} |->
    Val([word \in {cur_word(f1.input)} |->
        IF word = NoWord THEN [f |-> f1, r |-> "Ok", act |-> "Done"]
        ELSE
        Val([l \in {lookup(f1, word)} |->
            CASE l.k = "Err" -> [f |-> f1, r |-> "LookupFailed", act |-> "Continue"]
              [] l.k \in {"Dict", "Builtin"} ->
                    IF Len(f1.call_stack) >= CStackSize
                    THEN [f |-> f1, r |-> "StackFull", act |-> "Continue"]
                    ELSE [f |-> [f1 EXCEPT !.call_stack = Append(f1.call_stack,
                                    [eh |-> l.v, idx |-> 0,
                                     len |-> IF l.k = "Dict"
                                             THEN EntryAt(f1.dict_alloc, l.v).len
                                             ELSE 0])],
                          r |-> "Ok", act |-> "Execute"]
              [] l.k = "Literal" ->
                    IF Len(f1.data_stack) >= DStackSize
                    THEN [f |-> f1, r |-> "StackFull", act |-> "Continue"]
                    ELSE [f |-> [f1 EXCEPT !.data_stack = Append(f1.data_stack, l.v)],
                          r |-> "Ok", act |-> "Continue"]
              [] l.k = "LParen" ->
                    [f |-> munch_comment(f1, 0).f, r |-> "Ok", act |-> "Continue"]
              [] l.k \in {"Semicolon", "If", "Else", "Then", "Do", "Loop"} ->
                    [f |-> f1, r |-> "InterpretingCompileOnlyWord", act |-> "Continue"]
              [] l.k = "LQuote" ->
                    Val([a \in {advance_str(f1.input)} |->
                        IF ~a.ok
                        THEN [f |-> [f1 EXCEPT !.input = a.inp], r |-> "BadStrLiteral",
                              act |-> "Continue"]
                        ELSE Val([o \in {push_bstr([f1 EXCEPT !.input = a.inp],
                                           cur_str_literal(a.inp))} |-> [f |-> o.f, r |-> o.r, act |-> "Continue"]])])])])])

\* the while-let loop of Forth::interpret entered with the local copy me of
\* the top frame: next is "call" when a child frame was pushed and its
\* function is to be called, "ret" when interpret returns r, "ub" when the
\* cell is no pointer to an entry
interpret_loop(f, me) ==
    IF me.idx >= me.len THEN [f |-> f, r |-> "Ok", next |-> "ret"]
    ELSE
    Val([ptr \in {CellAt(f, me, me.idx)} |->
        IF ptr = NULL THEN [f |-> f, r |-> "NullPointerInCFA", next |-> "ret"]
        ELSE IF ~IsEntryPtr(f.dict_alloc, ptr) THEN [f |-> f, r |-> "Ok", next |-> "ub"]
        ELSE
        LET n  == Len(f.call_stack)
            f1 == [f EXCEPT !.call_stack[n] = me]
        IN  IF n >= CStackSize THEN [f |-> f1, r |-> "StackFull", next |-> "ret"]
            ELSE [f |-> [f1 EXCEPT !.call_stack = Append(f1.call_stack,
                            [eh |-> ptr, idx |-> 0,
                             len |-> EntryAt(f1.dict_alloc, ptr).len])],
                  r |-> "Ok", next |-> "call"]])

\* the call (func)(self) of the function of the top frame
call_top(f) ==
    Val([func \in {EntryAt(f.dict_alloc, Top(f.call_stack).eh).func} |->
        IF ~IsFnAddr(func) THEN [f |-> f, r |-> "Ok", next |-> "ub"]
        ELSE IF FnName(func) = "interpret" THEN interpret_loop(f, Top(f.call_stack))
        ELSE Val([o \in {CallBuiltin(f, FnName(func))} |->
                 [f |-> o.f, r |-> o.r, next |-> "ret"]])])

\* Forth::interpret after the child's function has returned result:
\* try_pop, result?, re-peek, me.offset(1), and the loop again
interpret_resume(f, result) ==
    LET f1  == [f EXCEPT !.call_stack = Pop(f.call_stack)]
        me  == Top(f1.call_stack)
        new == offset(me, 1)
    IN  IF result # "Ok" THEN [f |-> f1, r |-> result, next |-> "ret"]
        ELSE IF new < 0 THEN [f |-> f1, r |-> "BadCfaOffset", next |-> "ret"]
        ELSE interpret_loop(f1, [me EXCEPT !.idx = new])

(***************************************************************************)
(* Forth::process_line as a step machine.  A machine state is              *)
(* m = [f, pc, res, ret]: the VM, where process_line stands, the result    *)
(* the last called function returned, and the result of process_line.      *)
(* pc = "idle": no process_line is running; "line": process_line is        *)
(* between tokens; "call": the function of the top frame is to be called;  *)
(* "ret": that function has returned res to its caller; "ub": the VM has   *)
(* read or called through a cell that is no pointer to an entry, or        *)
(* written outside the arena, and nothing more is known of it.             *)
(***************************************************************************)
M(f, p, rs, rt) == [f |-> f, pc |-> p, res |-> rs, ret |-> rt]

\* process_line writing its closing line on an error as well;
\* OkLineOnlyOnOk rejects it
line_step_ok_on_error(m) ==
    Val([o \in {process_token(m.f)} |->
        IF o.r # "Ok" THEN M(push_bstr(o.f, tOkLine).f, "idle", o.r, o.r)
        ELSE IF o.act = "Done"
        THEN Val([w \in {push_bstr(o.f, tOkLine)} |->
                 M(w.f, "idle", "Ok", IF w.r = "Ok" THEN "Ok" ELSE "FormattingErr")])
        ELSE M(o.f, IF o.act = "Execute" THEN "call" ELSE "line", m.res, m.ret)])

\* process_line going on to the next token after a compile-only word;
\* InterpretCompileOnly rejects it
line_step_skip_compile_only(m) ==
    Val([o \in {process_token(m.f)} |->
        IF o.r = "InterpretingCompileOnlyWord" THEN M(o.f, "line", m.res, m.ret)
        ELSE IF o.r # "Ok" THEN M(o.f, "idle", o.r, o.r)
        ELSE IF o.act = "Done"
        THEN Val([w \in {push_bstr(o.f, tOkLine)} |->
                 M(w.f, "idle", "Ok", IF w.r = "Ok" THEN "Ok" ELSE "FormattingErr")])
        ELSE M(o.f, IF o.act = "Execute" THEN "call" ELSE "line", m.res, m.ret)])

\* Forth::process_line: the next token of the line
line_step(m) ==
    Val([o \in {process_token(m.f)} |->
        IF o.r # "Ok" THEN M(o.f, "idle", o.r, o.r)
        ELSE IF o.act = "Done"
        THEN Val([w \in {push_bstr(o.f, tOkLine)} |->
                 M(w.f, "idle", "Ok", IF w.r = "Ok" THEN "Ok" ELSE "FormattingErr")])
        ELSE M(o.f, IF o.act = "Execute" THEN "call" ELSE "line", m.res, m.ret)])

\* (func)(self): the function of the top frame runs up to its return or up
\* to its own call of a child
call_step(m) ==
    Val([o \in {call_top(m.f)} |-> M(o.f, o.next, o.r, m.ret)])

\* a child's function has returned into Forth::interpret
ret_interpret(m) ==
    Val([o \in {interpret_resume(m.f, m.res)} |-> M(o.f, o.next, o.r, m.ret)])

\* process_line without the pop of the word's frame; CallFrameBalance
\* rejects it
ret_process_line_no_pop(m) ==
    IF m.res # "Ok" THEN M(m.f, "idle", m.res, m.res)
    ELSE M(m.f, "line", m.res, m.ret)

\* process_line returning the error of the word before it pops the word's
\* frame; ErrorUnwindsFrames rejects it
ret_process_line_err_first(m) ==
    IF m.res # "Ok" THEN M(m.f, "idle", m.res, m.res)
    ELSE M([m.f EXCEPT !.call_stack = Pop(m.f.call_stack)], "line", m.res, m.ret)

\* the word's function has returned into Forth::process_line: pop, then res?
ret_process_line(m) ==
    IF m.res # "Ok"
    THEN M([m.f EXCEPT !.call_stack = Pop(m.f.call_stack)], "idle", m.res, m.res)
    ELSE M([m.f EXCEPT !.call_stack = Pop(m.f.call_stack)], "line", m.res, m.ret)

process_line_step(m) ==
    CASE m.pc = "line" -> line_step(m)
      [] m.pc = "call" -> call_step(m)
      [] m.pc = "ret" /\ Len(m.f.call_stack) >= 2 -> ret_interpret(m)
      [] m.pc = "ret" /\ Len(m.f.call_stack) < 2 -> ret_process_line(m)

\* the steps of process_line up to its return (or up to "ub"), at most n
RECURSIVE run(_, _)
run(m, n) ==
    IF m.pc \in {"idle", "ub"} \/ n = 0 THEN m
    ELSE run(process_line_step(m), n - 1)

\* the host fills the input buffer with the line, clears the output buffer
\* and calls process_line on the VM f
feed(f, line) ==
    M([f EXCEPT !.input = WordStrBuf_fill(line), !.output = <<>>],
      "line", "Ok", "Running")

\* process_line called by the host on the VM f with the line in its input
process_line(f, line) == run(feed(f, line), RunFuel)

(***************************************************************************)
(* The host's lines.                                                       *)
(***************************************************************************)
tColon == <<58>>
tA == <<97>>
tB == <<98>>
tX == <<120>>
tPlus == <<43>>
tDot == <<46>>
tSlash == <<47>>
tDup == <<100, 117, 112>>
tForget == <<102, 111, 114, 103, 101, 116>>
tI == <<105>>
tStore == <<33>>
tHi == <<104, 105>>
tRParen == <<41>>
tSleep == <<115, 108, 101, 101, 112>>
tDtoR == <<100, 62, 114>>
tRtoD == <<114, 62, 100>>
tMod == <<109, 111, 100>>
tDivMod == <<47, 109, 111, 100>>
tMinus == <<45>>
tStar == <<42>>
tAbs == <<97, 98, 115>>
tNegate == <<110, 101, 103, 97, 116, 101>>
tStarSlash == <<42, 47>>
tStarSlashMod == <<42, 47, 109, 111, 100>>
tSwap == <<115, 119, 97, 112>>
tRot == <<114, 111, 116>>
t2Swap == <<50, 115, 119, 97, 112>>
Num(n) == W(Dec(n))

\* the words process_line refuses outside a definition
CompileOnlyWords == {tSemicolon, tIf, tElse, tThen, tDo, tLoop}

\* a compile-only word between a literal and a word that would print it
CompileOnlyLines == {<<Num(1), W(kw), W(tDot)>> : kw \in CompileOnlyWords}

Lines ==
    CompileOnlyLines \cup
    { <<W(tColon), W(tA), Num(1), W(tSemicolon)>>,
      <<W(tColon), W(tB), W(tA), W(tA), W(tPlus), W(tDot), W(tSemicolon)>>,
      <<W(tB)>>,
      <<W(tColon), W(tX), Num(0), W(tIf), Num(2), W(tElse), Num(3), W(tThen),
        W(tDot), W(tSemicolon)>>,
      <<W(tColon), W(tX), Num(2), Num(0), W(tDo), W(tI), W(tDot), W(tLoop),
        W(tSemicolon)>>,
      <<W(tColon), W(tX), W(tLQuote), S(tHi), W(tSemicolon)>>,
      <<W(tX), W(tA)>>,
      <<W(tForget), W(tA)>>,
      <<W(tForget)>>,
      <<W(tForget), W(tPlus)>>,
      <<W(tColon), W(tIf), Num(1), W(tSemicolon)>>,
      <<W(tForget), W(tB)>>,
      <<W(tColon), W(tB), Num(1), Num(0), W(tSlash), W(tSemicolon), W(tB)>>,
      <<W(tColon), W(tX), W(tJumpZero), W(tSemicolon), Num(1), W(tX)>>,
      <<W(tColon), W(tA), Num(1), W(tIf), Num(5)>>,
      <<W(tColon), W(tB), Num(1)>>,
      <<W(tA), W(tDup), W(tPlus), W(tDot), W(tLQuote), S(tHi)>>
    }

\* a store of 100 through the address of a cell of the newest definition:
\* its cell 2, or its last cell if it is shorter
StoreLines(f) ==
    IF f.run_dict_tail = NULL THEN {}
    ELSE Val([de \in {EntryAt(f.dict_alloc, f.run_dict_tail)} |->
             IF de.kind # KindDictionary \/ de.len = 0 THEN {}
             ELSE {<<Num(100),
                     Num(pfa(f.run_dict_tail) + WordSize * Min(2, de.len - 1)),
                     W(tStore)>>}])

(***************************************************************************)
(* The synchronous VM driven by the host.                                  *)
(***************************************************************************)
FillBytes == {0, 170}

NoOp == [op |-> "none", r |-> "Ok", cur0 |-> ArenaStart]

InitVM(fill) ==
    /\ mode = "Run"
    /\ data_stack = <<>>
    /\ return_stack = <<>>
    /\ call_stack = <<>>
    /\ \E size \in {ArenaSize, SmallArenaSize, OddArenaSize, CompileArenaSize} :
           dict_alloc = DictionaryBump_new(ArenaStart, size, fill)
    /\ run_dict_tail = NULL
    /\ input = WordStrBuf_fill(<<>>)
    /\ output = <<>>
    /\ pc = "idle"
    /\ res = "Ok"
    /\ ret = "Ok"
    /\ last = NoOp
    /\ nlines = 0

Init ==
    \E fill \in FillBytes :
        /\ InitVM(fill)
        /\ dict_alloc.end = ArenaStart + ArenaSize
        /\ variant \in {"sync", "async"}

Machine == M(VM, pc, res, ret)

\* the step from the machine state to m; a write outside the arena may as
\* well have broken the VM
Become(m) ==
    /\ SetVM(m.f)
    /\ res' = m.res
    /\ ret' = m.ret
    /\ \E p \in (IF m.f.dict_alloc.oob # dict_alloc.oob THEN {m.pc, "ub"} ELSE {m.pc}) :
           pc' = p
    /\ UNCHANGED <<last, nlines, variant>>

\* the host calls process_line on a line
HostFeed ==
    /\ variant = "sync"
    /\ pc = "idle"
    /\ nlines < MaxLines
    /\ \E line \in Lines \cup StoreLines(VM) :
          /\ SetVM(feed(VM, line).f)
          /\ last' = [op |-> "process_line", r |-> "Ok", cur0 |-> dict_alloc.cur]
    /\ pc' = "line"
    /\ ret' = "Running"
    /\ nlines' = nlines + 1
    /\ UNCHANGED variant
    /\ UNCHANGED res

\* the host registers a word of its own between two lines
HostAddBuiltin ==
    /\ pc = "idle"
    /\ nlines < MaxLines
    /\ \E o \in {add_builtin(VM, tB, FnAddr("host_word"))} :
          /\ SetVM(o.f)
          /\ ret' = o.r
          /\ last' = [op |-> "add_builtin", r |-> o.r, cur0 |-> dict_alloc.cur]
    /\ nlines' = nlines + 1
    /\ UNCHANGED variant
    /\ UNCHANGED <<pc, res>>

LineStep == variant = "sync" /\ pc = "line" /\ Become(line_step(Machine))

CallStep == pc = "call" /\ Become(call_step(Machine))

RetInterpret ==
    pc = "ret" /\ Len(call_stack) >= 2 /\ Become(ret_interpret(Machine))

RetProcessLine ==
    /\ variant = "sync"
    /\ pc = "ret" /\ Len(call_stack) < 2
    /\ Become(ret_process_line(Machine))

(***************************************************************************)
(* vm/async_vm.rs: AsyncForth::process_line and async_pig.                 *)
(* pc = "pig": process_line is about to call async_pig; "await": the       *)
(* future of dispatch_async is being awaited.                              *)
(***************************************************************************)
\* Forth::start_processing_line: the dispatch of process_token, where a
\* pushed frame is reported as Execute instead of being called, and a word
\* found nowhere else is looked for among the async builtins
start_processing_line(f) ==
    Val([f1 \in {[f EXCEPT !.input = advance(f.input)]} |->
    Val([o \in {process_token(f)} |->
    Val([hits \in {{i \in 1..Len(AsyncBuiltins) :
                       AsyncBuiltins[i].name = cur_word(f1.input)}} |->
        IF o.r = "LookupFailed" /\ hits # {}
        THEN IF Len(f1.call_stack) >= CStackSize
             THEN [f |-> f1, r |-> "StackFull", act |-> "Continue"]
             ELSE [f |-> [f1 EXCEPT !.call_stack = Append(f1.call_stack,
                             [eh |-> AsyncAddr(CHOOSE i \in hits : TRUE),
                              idx |-> 0, len |-> 0])],
                   r |-> "Ok", act |-> "Execute"]
        ELSE o])])])

AsyncLines ==
    CompileOnlyLines \cup
    { <<W(tSleep)>>,
      <<W(tColon), W(tA), Num(1), W(tSemicolon)>>,
      <<W(tColon), W(tB), W(tA), W(tA), W(tPlus), W(tDot), W(tSemicolon)>>,
      <<W(tB), W(tSleep), W(tA)>>,
      <<Num(3), W(tSleep), W(tDot)>>,
      <<W(tColon), W(tB), Num(1), Num(0), W(tSlash), W(tSemicolon), W(tA), W(tB)>>,
      <<W(tColon), W(tX), Num(2), Num(0), W(tDo), W(tI), W(tDot), W(tLoop),
        W(tSemicolon), W(tX)>>,
      <<W(tForget), W(tA)>>,
      <<Num(3), Num(2), W(t2d2r), W(tSleep)>>,
      <<W(tColon), W(tX), Num(3), Num(1), W(tDo), W(tRtoD), W(tDup), W(tSlash),
        W(tDtoR), W(tLoop), W(tSemicolon), W(tX)>>
    }

\* the results the future of a host async builtin may complete with
DispatchResults == {"Ok", "PendingCallAgain", "HostError"}

\* the Err arm clearing the data stack and the call stack only;
\* AsyncErrorClearsStacks rejects it
AsyncFail_keep_return_stack(f, e) ==
    M([f EXCEPT !.data_stack = <<>>, !.call_stack = <<>>], "idle", e, e)

\* the Err arm of AsyncForth::process_line: clear the three stacks
AsyncFail(f, e) ==
    M([f EXCEPT !.data_stack = <<>>, !.return_stack = <<>>, !.call_stack = <<>>],
      "idle", e, e)

\* AsyncForth::process_line: one turn of the outer loop
async_line_step(m) ==
    Val([o \in {start_processing_line(m.f)} |->
        IF o.r # "Ok" THEN AsyncFail(o.f, o.r)
        ELSE IF o.act = "Done"
        THEN Val([w \in {push_bstr(o.f, tOkLine)} |->
                 IF w.r = "Ok" THEN M(w.f, "idle", "Ok", "Ok")
                 ELSE AsyncFail(w.f, w.r)])
        ELSE M(o.f, IF o.act = "Execute" THEN "pig" ELSE "line", m.res, m.ret)])

\* async_pig awaiting on the frame of every kind; SuspendOnlyInAsyncBuiltin
\* rejects it
async_pig_await_every_kind(m) ==
    IF m.f.call_stack = <<>> THEN M(m.f, "line", m.res, m.ret)
    ELSE M(m.f, "await", m.res, m.ret)

\* AsyncForth::async_pig up to the call of the top frame's function: Done on
\* an empty call stack, the await of dispatch_async for an AsyncBuiltin,
\* the synchronous call for the other kinds
async_pig(m) ==
    IF m.f.call_stack = <<>> THEN M(m.f, "line", m.res, m.ret)
    ELSE Val([kind \in {EntryAt(m.f.dict_alloc, Top(m.f.call_stack).eh).kind} |->
             IF kind = KindAsyncBuiltin THEN M(m.f, "await", m.res, m.ret)
             ELSE IF kind \notin {KindStaticBuiltin, KindRuntimeBuiltin, KindDictionary}
             THEN M(m.f, "ub", m.res, m.ret)
             ELSE call_step(m)])

\* async_pig leaving the frame on Ok as it does on PendingCallAgain, so
\* that the completed frame is run again; AsyncReturnsOrWordRuns rejects it
async_pig_ret_keep_on_ok(m) ==
    IF m.res \in {"Ok", "PendingCallAgain"} THEN M(m.f, "pig", m.res, m.ret)
    ELSE AsyncFail(m.f, m.res)

\* async_pig popping the frame on PendingCallAgain as it does on Ok;
\* PendingKeepsFrame rejects it
async_pig_ret_pop_pending(m) ==
    IF m.res \in {"Ok", "PendingCallAgain"}
    THEN M([m.f EXCEPT !.call_stack = Pop(m.f.call_stack)], "pig", m.res, m.ret)
    ELSE AsyncFail(m.f, m.res)

\* async_pig treating PendingCallAgain as every other error;
\* PendingNeverReturned rejects it
async_pig_ret_fail_pending(m) ==
    IF m.res = "Ok"
    THEN M([m.f EXCEPT !.call_stack = Pop(m.f.call_stack)], "pig", m.res, m.ret)
    ELSE AsyncFail(m.f, m.res)

\* the match on res of AsyncForth::async_pig, and the while loop around it
async_pig_ret(m) ==
    IF m.res = "Ok"
    THEN M([m.f EXCEPT !.call_stack = Pop(m.f.call_stack)], "pig", m.res, m.ret)
    ELSE IF m.res = "PendingCallAgain" THEN M(m.f, "pig", m.res, m.ret)
    ELSE AsyncFail(m.f, m.res)

HostFeedAsync ==
    /\ variant = "async"
    /\ pc = "idle"
    /\ nlines < MaxLines
    /\ \E line \in AsyncLines :
          /\ SetVM(feed(VM, line).f)
          /\ last' = [op |-> "process_line", r |-> "Ok", cur0 |-> dict_alloc.cur]
    /\ pc' = "line"
    /\ ret' = "Running"
    /\ nlines' = nlines + 1
    /\ UNCHANGED variant
    /\ UNCHANGED res

AsyncLineStep ==
    variant = "async" /\ pc = "line" /\ Become(async_line_step(Machine))

AsyncPig == pc = "pig" /\ Become(async_pig(Machine))

\* the future of builtins.dispatch_async completes with a result
AsyncDispatch ==
    /\ pc = "await"
    /\ \E r \in DispatchResults : res' = r
    /\ pc' = "ret"
    /\ UNCHANGED <<mode, data_stack, return_stack, call_stack, dict_alloc,
                   run_dict_tail, input, output, ret, last, nlines, variant>>

RetAsyncPig ==
    /\ variant = "async"
    /\ pc = "ret" /\ Len(call_stack) < 2
    /\ Become(async_pig_ret(Machine))

(***************************************************************************)
(* The host builds one of the two VMs and drives it.                       *)
(***************************************************************************)
Next ==
    \/ HostFeed \/ HostAddBuiltin
    \/ LineStep \/ CallStep \/ RetInterpret \/ RetProcessLine
    \/ HostFeedAsync \/ AsyncLineStep \/ AsyncPig \/ AsyncDispatch \/ RetAsyncPig

Spec == Init /\ [][Next]_vars

(***************************************************************************)
(* The async VM polled by a host that keeps polling, with async builtins   *)
(* whose futures complete in the end.  Stepping: process_line stands at a  *)
(* point where its next step is code of the VM.  Every such step changes   *)
(* the state, so ENABLED <<NextLive>>_vars is Stepping there, and the weak *)
(* fairness of the steps of process_line, WF_vars(Stepping /\ NextLive),   *)
(* is HostKeepsPolling.  The strong fairness says that a dispatch tried    *)
(* again and again gives a result other than PendingCallAgain at last.     *)
(***************************************************************************)
InitLive == Init /\ variant = "async"

NextLive ==
    \/ HostFeedAsync \/ HostAddBuiltin
    \/ AsyncLineStep \/ AsyncPig \/ CallStep \/ RetInterpret
    \/ AsyncDispatch \/ RetAsyncPig

Stepping == pc \in {"line", "pig", "call", "ret"}

HostKeepsPolling == ([]<>(~Stepping)) \/ ([]<><<Stepping>>_vars)

SpecLive ==
    /\ InitLive /\ [][NextLive]_vars
    /\ HostKeepsPolling
    /\ SF_vars(AsyncDispatch /\ res' # "PendingCallAgain")

(***************************************************************************)
(* The compiler and the compiled words: the synchronous VM, with an arena  *)
(* that has room for every definition of the lines, given lines that       *)
(* define a word x and run it.                                             *)
(***************************************************************************)
\* : x body ; followed by the tokens after
Def(body, after) == <<W(tColon), W(tX)>> \o body \o <<W(tSemicolon)>> \o after

\* definitions with an if, an else or a do left open, closed twice or
\* closed by the wrong word
OpenLines ==
    { Def(<<Num(1), W(tIf), Num(2)>>, <<>>),
      <<W(tColon), W(tX), Num(1), W(tIf), Num(2)>>,
      Def(<<Num(1), W(tIf), Num(2), W(tElse), Num(3)>>, <<>>),
      <<W(tColon), W(tX), Num(1), W(tIf), Num(2), W(tElse), Num(3)>>,
      Def(<<Num(1), W(tIf), Num(2), W(tElse), Num(3), W(tElse), Num(4), W(tThen)>>, <<>>),
      Def(<<Num(2), Num(0), W(tDo), W(tI)>>, <<>>),
      <<W(tColon), W(tX), Num(2), Num(0), W(tDo), W(tI)>>,
      Def(<<Num(1), W(tIf), Num(2), Num(0), W(tDo), W(tI)>>, <<>>),
      Def(<<Num(2), Num(0), W(tDo), Num(1), W(tIf), W(tLoop)>>, <<>>),
      Def(<<Num(1), W(tIf), Num(2), Num(0), W(tDo), W(tThen)>>, <<>>) }

\* ( hi ), a comment
Comment == <<W(tLParen), W(tHi), W(tRParen)>>

\* definitions with a comment: before the body, in the body of an if, of
\* an else and of a do
CommentLines ==
    { Def(Comment \o <<Num(1), W(tDot)>>, <<W(tX)>>),
      Def(<<Num(1), W(tIf)>> \o Comment \o <<Num(2), W(tDot), W(tThen)>>, <<W(tX)>>),
      Def(<<Num(0), W(tIf), Num(2), W(tElse)>> \o Comment \o <<Num(3), W(tDot), W(tThen)>>,
          <<W(tX)>>),
      Def(<<Num(1), Num(0), W(tDo)>> \o Comment \o <<W(tI), W(tDot), W(tLoop)>>, <<W(tX)>>) }

tHello == <<104, 101, 108, 108, 111>>
tWord == <<119, 111, 114, 100>>

\* definitions that begin with a string literal, of 2, 4 and 5 bytes, the
\* last thing of the definition or followed by other cells
StringLines ==
    { Def(<<W(tLQuote), S(str)>> \o rest, <<W(tX)>>) :
          str \in {tHi, tWord, tHello}, rest \in {<<>>, <<Num(7), W(tDot)>>} }

\* <<limit, start>> of the loops run, start < limit
LoopPairs == {<<3, 0>>, <<2, 1>>, <<1, 0>>, <<0, -2>>}

\* : x limit start do i . loop ; x
LoopLine(p) == Def(<<Num(p[1]), Num(p[2]), W(tDo), W(tI), W(tDot), W(tLoop)>>, <<W(tX)>>)

\* : x 7 d>r 3 0 do i . loop r>d . ; x, a loop over a cell of the return stack
KeptLoopLine ==
    Def(<<Num(7), W(tDtoR), Num(3), Num(0), W(tDo), W(tI), W(tDot), W(tLoop),
          W(tRtoD), W(tDot)>>, <<W(tX)>>)

LoopLines == {LoopLine(p) : p \in LoopPairs} \cup {KeptLoopLine}

DivWords == {tSlash, tMod, tDivMod}

\* : x 5 . 5 0 /mod ; x, a division by zero in a word that has printed
DivInWordLine ==
    Def(<<Num(5), W(tDot), Num(5), Num(0), W(tDivMod)>>, <<W(tX)>>)

\* divisions by zero typed on the line, divisions by 2 that print what they
\* leave, and a division by zero inside a word
DivLines ==
    {<<Num(5), Num(0), W(op)>> : op \in DivWords}
        \cup {<<Num(5), Num(2), W(tSlash), W(tDot)>>,
              <<Num(5), Num(2), W(tMod), W(tDot)>>,
              <<Num(5), Num(2), W(tDivMod), W(tDot), W(tDot)>>}
        \cup {DivInWordLine}

\* two names of four bytes whose FNV-1a hashes agree in the 24 bits kept
tBqye == <<98, 113, 121, 101>>
tJkbz == <<106, 107, 98, 122>>

\* : bqye 1 ; : jkbz 2 ; bqye . jkbz .
CollideLine ==
    <<W(tColon), W(tBqye), Num(1), W(tSemicolon),
      W(tColon), W(tJkbz), Num(2), W(tSemicolon),
      W(tBqye), W(tDot), W(tJkbz), W(tDot)>>

tFoo == <<102, 111, 111>>
tFOO == <<70, 79, 79>>
tFoO == <<70, 111, 79>>

\* : FOO 7 ; foo . and : FoO 7 ; foo .
UpperLine(name) ==
    <<W(tColon), W(name), Num(7), W(tSemicolon), W(tFoo), W(tDot)>>

tDUP == <<68, 85, 80>>

\* : foo 7 ; FOO . and : foo 7 ; FoO .
CaseLine(name) ==
    <<W(tColon), W(tFoo), Num(7), W(tSemicolon), W(name), W(tDot)>>

\* 1 DUP . .
DupLine == <<Num(1), W(tDUP), W(tDot), W(tDot)>>

NameLines ==
    {CollideLine, UpperLine(tFOO), UpperLine(tFoO),
     CaseLine(tFOO), CaseLine(tFoO), DupLine}

\* definitions with an else, a then or a loop that no if or do encloses:
\* alone, inside the other kind of structure, and after a closed structure
StrayLines ==
    { Def(<<Num(1), W(tElse)>>, <<>>),
      Def(<<Num(1), W(tThen)>>, <<>>),
      Def(<<Num(1), W(tLoop)>>, <<>>),
      Def(<<Num(1), W(tIf), W(tLoop), W(tThen)>>, <<>>),
      Def(<<Num(2), Num(0), W(tDo), W(tElse), W(tLoop)>>, <<>>),
      Def(<<Num(2), Num(0), W(tDo), W(tThen), W(tLoop)>>, <<>>),
      Def(<<Num(1), W(tIf), W(tThen), W(tThen)>>, <<>>) }

\* : name 1 ; forget name
DefForgetLine(name) ==
    <<W(tColon), W(name), Num(1), W(tSemicolon), W(tForget), W(name)>>

ForgetLines == {DefForgetLine(name) : name \in {tX, tHi, tWord}}

Flags == {0, 1, -1}

\* : x if 2 . else 3 . then 4 . ; flag x
IfElseLine(flag) ==
    Def(<<W(tIf), Num(2), W(tDot), W(tElse), Num(3), W(tDot), W(tThen),
          Num(4), W(tDot)>>,
        <<Num(flag), W(tX)>>)

\* : x if 2 . then 4 . ; flag x
IfThenLine(flag) ==
    Def(<<W(tIf), Num(2), W(tDot), W(tThen), Num(4), W(tDot)>>,
        <<Num(flag), W(tX)>>)

BranchLines == {IfElseLine(flag) : flag \in Flags} \cup {IfThenLine(flag) : flag \in Flags}

\* definitions mixing a comment, strings inside both branches of an if, a
\* loop, literals and calls, ending with the loop or with a string
MixLines ==
    { Def(Comment \o <<Num(1), W(tIf), W(tLQuote), S(tHi), W(tElse),
            W(tLQuote), S(tHello), W(tThen), Num(2), Num(0), W(tDo), W(tI), W(tDot),
            W(tLoop)>> \o rest, <<W(tX)>>) :
          rest \in {<<>>, <<W(tLQuote), S(tWord)>>, <<W(tLQuote), S(tHi)>>} }

CompileLines ==
    MixLines \cup OpenLines \cup CommentLines \cup StringLines \cup LoopLines \cup DivLines
        \cup NameLines \cup BranchLines \cup StrayLines \cup ForgetLines

HostFeedCompile ==
    /\ variant = "sync"
    /\ pc = "idle"
    /\ nlines < MaxCompileLines
    /\ \E line \in CompileLines :
          /\ SetVM(feed(VM, line).f)
          /\ last' = [op |-> "process_line", r |-> "Ok", cur0 |-> dict_alloc.cur]
    /\ pc' = "line"
    /\ ret' = "Running"
    /\ nlines' = nlines + 1
    /\ UNCHANGED variant
    /\ UNCHANGED res

InitCompile ==
    \E fill \in FillBytes :
        /\ InitVM(fill)
        /\ dict_alloc.end = ArenaStart + CompileArenaSize
        /\ variant = "sync"

NextCompile ==
    \/ HostFeedCompile
    \/ LineStep \/ CallStep \/ RetInterpret \/ RetProcessLine

SpecCompile == InitCompile /\ [][NextCompile]_vars

(***************************************************************************)
(* The dictionary under definitions, registrations and forgets: the same   *)
(* VM, the host registering a word between two lines.                      *)
(***************************************************************************)
\* definitions that call older words, define a name again or name
\* themselves, forgets typed on the line, and a word that forgets
DictLines ==
    { <<W(tColon), W(tA), Num(1), W(tSemicolon),
        W(tColon), W(tB), W(tA), W(tA), W(tPlus), W(tSemicolon)>>,
      <<W(tColon), W(tA), W(tB), W(tSemicolon)>>,
      <<W(tColon), W(tX), W(tA), W(tB), W(tSemicolon)>>,
      <<W(tColon), W(tA), W(tA), W(tSemicolon)>>,
      <<W(tColon), W(tB), Num(1), W(tIf), W(tA), W(tThen), W(tLQuote), S(tHi),
        W(tSemicolon)>>,
      <<W(tColon), W(tX), W(tForget), W(tSemicolon), W(tX), W(tA)>>,
      <<W(tForget), W(tA)>>,
      <<W(tForget), W(tB)>> }

HostFeedDict ==
    /\ variant = "sync"
    /\ pc = "idle"
    /\ nlines < MaxLines
    /\ \E line \in DictLines :
          /\ SetVM(feed(VM, line).f)
          /\ last' = [op |-> "process_line", r |-> "Ok", cur0 |-> dict_alloc.cur]
    /\ pc' = "line"
    /\ ret' = "Running"
    /\ nlines' = nlines + 1
    /\ UNCHANGED variant
    /\ UNCHANGED res

NextDict ==
    \/ HostFeedDict \/ HostAddBuiltin
    \/ LineStep \/ CallStep \/ RetInterpret \/ RetProcessLine

SpecDict == InitCompile /\ [][NextDict]_vars

(***************************************************************************)
(* The words of the data stack and of the arithmetic, run from a line that *)
(* pushes their operands, directly or two definitions deep.                *)
(***************************************************************************)
MaxStackLines == 1
StackVals == {I32Min, -1, 0, 2, I32Max}
StackWords ==
    {tPlus, tMinus, tStar, tAbs, tNegate, tSlash, tMod, tDivMod, tStarSlash,
     tStarSlashMod, tSwap, tRot, t2Swap, t2d2r}

\* no operand, or up to as many as the data stack holds
Operands == UNION {[1..n -> StackVals] : n \in 0..DStackSize}

\* the operands and the word
WordLine(ops, word) == [i \in 1..Len(ops) |-> Num(ops[i])] \o <<W(word)>>

\* : a word ; : b a ; and the operands before b
NestedLine(ops, word) ==
    <<W(tColon), W(tA), W(word), W(tSemicolon),
      W(tColon), W(tB), W(tA), W(tSemicolon)>>
        \o [i \in 1..Len(ops) |-> Num(ops[i])] \o <<W(tB)>>

\* : a + ; : b a ; : x b ; and the operands before x, which calls one
\* level deeper than the call stack holds
DeepLine(ops) ==
    <<W(tColon), W(tA), W(tPlus), W(tSemicolon),
      W(tColon), W(tB), W(tA), W(tSemicolon),
      W(tColon), W(tX), W(tB), W(tSemicolon)>>
        \o [i \in 1..Len(ops) |-> Num(ops[i])] \o <<W(tX)>>

StackLines ==
    {WordLine(ops, word) : ops \in Operands, word \in StackWords}
        \cup {NestedLine(ops, word) :
                  ops \in {<<>>, <<2>>, <<2, 0>>, <<2, 2, 0>>, <<I32Min, -1>>},
                  word \in {tPlus, tSlash, tRot}}
        \cup {DeepLine(ops) : ops \in {<<>>, <<2, 2>>}}

HostFeedStack ==
    /\ variant = "sync"
    /\ pc = "idle"
    /\ nlines < MaxStackLines
    /\ \E line \in StackLines :
          /\ SetVM(feed(VM, line).f)
          /\ last' = [op |-> "process_line", r |-> "Ok", cur0 |-> dict_alloc.cur]
    /\ pc' = "line"
    /\ ret' = "Running"
    /\ nlines' = nlines + 1
    /\ UNCHANGED variant
    /\ UNCHANGED res

NextStack ==
    \/ HostFeedStack
    \/ LineStep \/ CallStep \/ RetInterpret \/ RetProcessLine

SpecStack == InitCompile /\ [][NextStack]_vars

(***************************************************************************)
(* The arena driven through its own interface and through the two VM       *)
(* operations that allocate and release: every operation from every state  *)
(* a sequence of them reaches.                                             *)
(***************************************************************************)
ArenaNames == {tA, <<65, 66>>, <<195, 169>>}
ArenaVals == {-1, 305419896}
ArenaCounts == {0, 1, 3}
\* (alignment, size) of the types allocated with bump::<T>()
ArenaTypes == {<<WordSize, WordSize>>, <<WordSize, EntrySize>>}

ArenaOp(op, r, d) ==
    /\ pc = "idle"
    /\ nlines < MaxArenaOps
    /\ nlines' = nlines + 1
    /\ UNCHANGED variant
    /\ last' = [op |-> op, r |-> r, cur0 |-> dict_alloc.cur]
    /\ dict_alloc' = d

ArenaBumpU8s ==
    \E n \in ArenaCounts :
        \E b \in {bump_u8s(dict_alloc, n)} :
            /\ ArenaOp("bump_u8s", IF b.ptr = NULL THEN "OutOfMemory" ELSE "Ok", b.d)
            /\ UNCHANGED <<mode, data_stack, return_stack, call_stack, run_dict_tail,
                           input, output, pc, res, ret>>

ArenaBumpU8 ==
    \E b \in {bump_u8(dict_alloc)} :
        /\ ArenaOp("bump_u8", IF b.ptr = NULL THEN "OutOfMemory" ELSE "Ok", b.d)
        /\ UNCHANGED <<mode, data_stack, return_stack, call_stack, run_dict_tail,
                       input, output, pc, res, ret>>

ArenaBump ==
    \E t \in ArenaTypes :
        \E b \in {bump(dict_alloc, t[1], t[2])} :
            /\ ArenaOp("bump", b.r, b.d)
            /\ UNCHANGED <<mode, data_stack, return_stack, call_stack, run_dict_tail,
                           input, output, pc, res, ret>>

ArenaBumpWrite ==
    \E v \in ArenaVals :
        \E b \in {bump_write(dict_alloc, v)} :
            /\ ArenaOp("bump_write", b.r, b.d)
            /\ UNCHANGED <<mode, data_stack, return_stack, call_stack, run_dict_tail,
                           input, output, pc, res, ret>>

ArenaBumpStr ==
    \E s \in ArenaNames :
        \E b \in {bump_str(dict_alloc, s)} :
            /\ ArenaOp("bump_str", b.r, b.d)
            /\ UNCHANGED <<mode, data_stack, return_stack, call_stack, run_dict_tail,
                           input, output, pc, res, ret>>

\* Forth::add_builtin called by the host
ArenaAddBuiltin ==
    \E s \in ArenaNames :
        \E o \in {add_builtin(VM, s, FnAddr("host_word"))} :
            /\ ArenaOp("add_builtin", o.r, o.f.dict_alloc)
            /\ run_dict_tail' = o.f.run_dict_tail
            /\ UNCHANGED <<mode, data_stack, return_stack, call_stack,
                           input, output, pc, res, ret>>

\* Forth::forget called with the name as the rest of the input
ArenaForget ==
    \E s \in ArenaNames \cup {tDup} :
        \E o \in {forget([VM EXCEPT !.input = WordStrBuf_fill(<<W(s)>>)])} :
            /\ ArenaOp("forget", o.r, o.f.dict_alloc)
            /\ run_dict_tail' = o.f.run_dict_tail
            /\ input' = o.f.input
            /\ UNCHANGED <<mode, data_stack, return_stack, call_stack,
                           output, pc, res, ret>>

NextArena ==
    \/ ArenaBumpU8s \/ ArenaBumpU8 \/ ArenaBump \/ ArenaBumpWrite \/ ArenaBumpStr
    \/ ArenaAddBuiltin \/ ArenaForget

InitArena ==
    \E fill \in FillBytes :
        /\ InitVM(fill)
        /\ dict_alloc.end \in {ArenaStart + SmallArenaSize, ArenaStart + OddArenaSize}
        /\ variant = "sync"

SpecArena == InitArena /\ [][NextArena]_vars

(***************************************************************************)
(* Properties of the VM, each followed by a state that shows its case.     *)
(***************************************************************************)
\* the builtin entry of a word of the table
AddrOf(name) == BuiltinAddr(CHOOSE i \in 1..Len(Builtins) : Builtins[i].name = name)

\* the function of the top frame is about to run, and it is the word name
Calling(name) ==
    pc \in {"call", "pig"} /\ call_stack # <<>> /\ Top(call_stack).eh = AddrOf(name)

\* C1: when process_line of the synchronous or of the async VM returns Ok,
\* the call stack is empty, whatever the line and the nesting of the words
\* it ran.
CallFrameBalance ==
    (pc = "idle" /\ last.op = "process_line" /\ ret = "Ok") => call_stack = <<>>

\* the line b has run a inside b inside process_line, and printed 2
CallFrameBalanceWitness ==
    /\ pc = "idle" /\ last.op = "process_line" /\ ret = "Ok"
    /\ output = <<50, 32>> \o tOkLine

\* C3: after any sequence of bump, bump_write, bump_u8, bump_u8s, bump_str,
\* add_builtin and forget calls, failed or not, start <= cur <= end, that is
\* used() <= capacity().
ArenaBounds ==
    /\ dict_alloc.start <= dict_alloc.cur
    /\ dict_alloc.cur <= dict_alloc.end
    /\ used(dict_alloc) <= capacity(dict_alloc)

\* the last of the operations has failed for lack of room, with an entry
\* registered and bytes in use
ArenaBoundsWitness ==
    /\ nlines = MaxArenaOps
    /\ last.r = "OutOfMemory"
    /\ dict_alloc.cur > dict_alloc.start
    /\ run_dict_tail # NULL

\* C4: when bump, bump_write, bump_u8, bump_u8s or bump_str fails with
\* out-of-memory, the cursor is where it was before the call.
OomKeepsCursor ==
    (/\ last.op \in {"bump", "bump_write", "bump_u8", "bump_u8s", "bump_str"}
     /\ last.r = "OutOfMemory")
        => dict_alloc.cur = last.cur0

\* a typed allocation has failed from an unaligned cursor, where bump has
\* padding to write before it finds that the value does not fit
OomKeepsCursorWitness ==
    /\ last.op \in {"bump", "bump_write"}
    /\ last.r = "OutOfMemory"
    /\ last.cur0 % WordSize # 0
    /\ dict_alloc.cur = last.cur0

\* C10: in the async VM, when the function of the top frame returns
\* PendingCallAgain the step leaves the call stack as it is and goes on to
\* dispatch the same async entry again; the step pops the frame and goes on
\* only when the function returned Ok.
PendingKeepsFrame ==
    [][(variant = "async" /\ pc = "ret" /\ Len(call_stack) < 2) =>
          /\ res = "PendingCallAgain" =>
                /\ call_stack' = call_stack
                /\ pc' = "pig"
                /\ EntryAt(dict_alloc', Top(call_stack').eh).kind = KindAsyncBuiltin
          /\ (pc' = "pig" /\ call_stack' = Pop(call_stack)) => res = "Ok"]_vars

\* sleep has returned PendingCallAgain and its frame is still the top one
PendingKeepsFrameWitness ==
    /\ variant = "async" /\ pc = "pig" /\ res = "PendingCallAgain"
    /\ Len(call_stack) = 1
    /\ Top(call_stack).eh = AsyncAddr(1)

(***************************************************************************)
(* The dictionary chain and the bytes of its entries.                      *)
(***************************************************************************)
\* the entries linked from ptr on, at most n of them
RECURSIVE ChainFrom(_, _, _)
ChainFrom(d, ptr, n) ==
    IF ptr = NULL \/ n = 0 \/ ~IsEntryPtr(d, ptr) THEN {}
    ELSE {ptr} \cup ChainFrom(d, EntryAt(d, ptr).link, n - 1)

\* the entries of the dictionary; every host call links at most one
Chain(f) == ChainFrom(f.dict_alloc, f.run_dict_tail, MaxLines)

\* the entries linked from ptr down to target, target included
RECURSIVE ChainUpTo(_, _, _, _)
ChainUpTo(d, ptr, target, n) ==
    IF ptr = NULL \/ n = 0 \/ ~IsEntryPtr(d, ptr) THEN {}
    ELSE IF ptr = target THEN {ptr}
    ELSE {ptr} \cup ChainUpTo(d, EntryAt(d, ptr).link, target, n - 1)

\* the bytes of the header and of the body of the entry at e
EntrySpan(d, e) ==
    IF EntryAt(d, e).kind = KindDictionary
    THEN EntrySize + WordSize * EntryAt(d, e).len
    ELSE BuiltinEntrySize
EntryImage(d, e) == ReadBytes(d, e, EntrySpan(d, e))

\* the address of the name bytes of the entry at e
NameAddr(d, e) == ReadWord(d, e)

\* the word after the one being executed: the name forget and : read
NextName == cur_word(advance(input))

\* the entry forget is about to remove, and those defined after it
ForgetTarget == find_in_dict(VM, TmpFaStr_new_from(NextName))
ForgetGone == ChainUpTo(dict_alloc, run_dict_tail, ForgetTarget, MaxLines)

\* C2 as stated: after a successful forget NAME, lookup finds nothing under
\* NAME, and the name, header and body bytes of the forgotten entry and of
\* every later entry lie at or beyond the new cursor.
ForgetHidesName ==
    [][(Calling(tForget) /\ res' = "Ok") =>
          /\ lookup(VM', NextName).k \notin {"Dict", "Builtin"}
          /\ \A e \in ForgetGone :
                /\ e \notin Chain(VM')
                /\ e >= dict_alloc'.cur
                /\ NameAddr(dict_alloc, e) >= dict_alloc'.cur]_vars

\* C2: after a successful forget NAME the forgotten entry and every entry
\* defined after it are out of the dictionary chain, the older entries are
\* still in it, lookup of NAME finds none of the removed entries (it finds
\* an older definition or a builtin of that name, if there is one), and the
\* header and body bytes of the removed entries lie at or beyond the new
\* cursor, which is the address of the forgotten entry's header; the name
\* bytes of that entry, allocated before its header, stay below the cursor.
ForgetUnlinks ==
    [][(Calling(tForget) /\ res' = "Ok") =>
          /\ ForgetTarget \in ForgetGone
          /\ Chain(VM') = Chain(VM) \ ForgetGone
          /\ lookup(VM', NextName).v \notin ForgetGone
          /\ dict_alloc'.cur = ForgetTarget
          /\ NameAddr(dict_alloc, ForgetTarget) < dict_alloc'.cur
          /\ \A e \in ForgetGone :
                /\ e >= dict_alloc'.cur
                /\ e # ForgetTarget => NameAddr(dict_alloc, e) >= dict_alloc'.cur]_vars

\* forget a has returned Ok after a was defined twice: the older a is the
\* head of the dictionary again and lookup finds it
ForgetUnlinksWitness ==
    /\ pc = "ret" /\ res = "Ok"
    /\ call_stack # <<>> /\ Top(call_stack).eh = AddrOf(tForget)
    /\ run_dict_tail # NULL
    /\ lookup(VM, cur_word(input)) = [k |-> "Dict", v |-> run_dict_tail]

(***************************************************************************)
(* The compiled jump offsets.                                              *)
(***************************************************************************)
\* the body of the entry at e read as the interpreter reads it from cell i
\* on: every jump has its offset cell, and the offset applied at the index
\* of the jump followed by the +1 of interpret lands in 0..len
RECURSIVE JumpsLand(_, _, _, _)
JumpsLand(d, e, len, i) ==
    IF i >= len THEN TRUE
    ELSE Val([w \in {ReadWord(d, pfa(e) + i * WordSize)} |->
         Val([arg \in {ReadWord(d, pfa(e) + (i + 1) * WordSize)} |->
             IF w = AddrOf(tLiteralWord) THEN JumpsLand(d, e, len, i + 2)
             ELSE IF w = AddrOf(tWriteStr)
             THEN arg >= 0 /\ JumpsLand(d, e, len, i + 2 + CeilWords(arg))
             ELSE IF w \in {AddrOf(tJumpZero), AddrOf(tJmp), AddrOf(tJmpDoLoop)}
             THEN /\ i + 1 < len
                  /\ i + arg + 1 \in 0..len
                  /\ JumpsLand(d, e, len, i + 2)
             ELSE JumpsLand(d, e, len, i + 1)])])

\* the words that only if, else, do, loop, numbers and strings compile
RawWords == {tLiteralWord, tJumpZero, tJmp, tJmpDoLoop, tWriteStr}

\* the line being processed names none of them
LegalLine == \A k \in 1..Len(input.buf) : input.buf[k].b \notin RawWords

\* colon has just returned r
ColonReturned(r) ==
    /\ pc = "ret" /\ res = r
    /\ call_stack # <<>> /\ Top(call_stack).eh = AddrOf(tColon)

\* C6: in the definition a successful colon has just linked, compiled from
\* a line with if/else/then and do/loop properly nested and terminated,
\* every jump offset applied at the index of its jump and followed by the
\* +1 advance of interpret gives a cell index in 0..len of that definition.
JumpOffsetsInRange ==
    (ColonReturned("Ok") /\ LegalLine) =>
        JumpsLand(dict_alloc, run_dict_tail,
                  EntryAt(dict_alloc, run_dict_tail).len, 0)

\* colon has linked a definition holding a (jump-zero) and a (jmp): an
\* if with an else
JumpOffsetsInRangeWitness ==
    /\ ColonReturned("Ok") /\ LegalLine
    /\ \E i \in 0..(EntryAt(dict_alloc, run_dict_tail).len - 1) :
          /\ CellAt(VM, [eh |-> run_dict_tail], i) = AddrOf(tJmp)
          /\ CellAt(VM, [eh |-> run_dict_tail], i + 1) = 3

\* C7: when colon fails, for any reason, run_dict_tail is unchanged, lookup
\* of the new name gives what it gave before the attempt, and the cursor
\* has not moved back.
ColonFailKeeps ==
    [][(Calling(tColon) /\ res' # "Ok") =>
          /\ run_dict_tail' = run_dict_tail
          /\ NextName # NoWord => lookup(VM', NextName) = lookup(VM, NextName)
          /\ dict_alloc'.cur >= dict_alloc.cur]_vars

\* colon has failed after it had allocated the name, the header and cells
\* of the body, which stay allocated
ColonFailKeepsWitness ==
    /\ \E r \in {"IfWithoutThen", "ColonCompileMissingSemicolon"} : ColonReturned(r)
    /\ dict_alloc.cur >= last.cur0 + EntrySize + 2 * WordSize

(***************************************************************************)
(* The bytes of linked definitions.                                        *)
(***************************************************************************)
\* C8: once a definition is linked, no later compilation, allocation,
\* builtin registration or word execution changes a byte of its header or
\* body until a forget removes it: no step changes the image of an entry
\* that is linked before the step and still linked after it.
LinkedBytesImmutable ==
    [][\A e \in Chain(VM) :
          e \in Chain(VM') => EntryImage(dict_alloc', e) = EntryImage(dict_alloc, e)]_vars


(***************************************************************************)
(* The frames of the call stack.                                           *)
(***************************************************************************)
\* C9: in every state every frame of the call stack has idx <= len.
FrameIdxWithinLen ==
    pc # "ub" => \A k \in 1..Len(call_stack) : call_stack[k].idx <= call_stack[k].len

(***************************************************************************)
(* Direct execution of a token sequence T against : x T ; followed by x,   *)
(* both from the VM as it stands between two lines.                        *)
(***************************************************************************)
DualityLines ==
    { <<Num(1), W(tDup), W(tPlus), W(tDot)>>,
      <<W(tLQuote), S(tHi), Num(7)>>,
      <<W(tA), W(tA), W(tPlus)>>,
      <<W(tB)>>,
      <<W(tX), W(tLParen), W(tHi), W(tRParen)>>,
      <<W(tForget), W(tA)>>,
      <<W(tColon), W(tA), Num(1), W(tSemicolon)>> }

\* the words that read the rest of the line when they run
ParsingWords == {tColon, tForget}
NoParsingWord(T) == \A k \in 1..Len(T) : T[k].b \notin ParsingWords

ColonLine(T) == <<W(tColon), W(tX)>> \o T \o <<W(tSemicolon)>>

DirectOk(T) ==
    Val([d \in {process_line(VM, T)} |-> d.pc = "idle" /\ d.ret = "Ok"])

\* : x T ; and then x return Ok, with the output and the data stack that T
\* run directly gives
CompiledSame(T) ==
    Val([d \in {process_line(VM, T)} |->
    Val([c \in {process_line(VM, ColonLine(T))} |->
    Val([x \in {process_line(c.f, <<W(tX)>>)} |->
        /\ c.pc = "idle" /\ c.ret = "Ok" /\ c.f.output = tOkLine
        /\ x.pc = "idle" /\ x.ret = "Ok"
        /\ x.f.output = d.f.output
        /\ x.f.data_stack = d.f.data_stack])])])

\* the arena has no room for : x T ;, or the call stack none for the frame
\* of x under the frames of T
CompiledRanOut(T) ==
    Val([c \in {process_line(VM, ColonLine(T))} |->
    Val([x \in {process_line(c.f, <<W(tX)>>)} |->
        \/ c.pc = "idle" /\ c.ret = "OutOfMemory"
        \/ c.pc = "idle" /\ c.ret = "Ok" /\ x.pc = "idle" /\ x.ret = "StackFull"])])

BetweenLines == variant = "sync" /\ pc = "idle"

AsyncErrorClearsStacks ==
    (variant = "async" /\ pc = "idle" /\ last.op = "process_line" /\ ret # "Ok") =>
        (data_stack = <<>> /\ return_stack = <<>> /\ call_stack = <<>>)

\* the future of sleep has failed in the line 3 2 2d>2r sleep, with two
\* cells on the return stack and the frame of sleep on the call stack, and
\* process_line has returned that error
AsyncErrorClearsStacksWitness ==
    /\ variant = "async" /\ pc = "idle" /\ last.op = "process_line"
    /\ ret = "HostError"
    /\ input.buf = <<Num(3), Num(2), W(t2d2r), W(tSleep)>>
    /\ return_stack = <<>>

(***************************************************************************)
(* The suspension points of the async process_line.                        *)
(***************************************************************************)
\* the future of process_line is suspended, or about to be: it awaits the
\* future of dispatch_async, the only await of async_pig that is not the
\* call of an async fn of the VM itself
Suspendable == pc = "await"

\* C12: the async process_line can suspend only while the top call frame is
\* an AsyncBuiltin entry being dispatched; the steps running static
\* builtins, runtime builtins and dictionary words, and the processing of
\* the tokens between them, run without a suspension.
SuspendOnlyInAsyncBuiltin ==
    Suspendable =>
        /\ variant = "async"
        /\ call_stack # <<>>
        /\ EntryAt(dict_alloc, Top(call_stack).eh).kind = KindAsyncBuiltin

\* the line 3 sleep . is suspended in sleep, between the 3 and the .
SuspendOnlyInAsyncBuiltinWitness ==
    /\ Suspendable
    /\ Top(call_stack).eh = AsyncAddr(1)
    /\ data_stack = <<3>>
    /\ cur_word(advance(input)) = tDot

(***************************************************************************)
(* The async process_line returning in the end.                            *)
(***************************************************************************)
\* no process_line is running (or nothing more is known of the VM)
Returned == pc \in {"idle", "ub"}

\* a dictionary word called from the line is running and has not reached
\* the end of its body
WordRunning ==
    /\ pc \notin {"idle", "ub"}
    /\ call_stack # <<>>
    /\ EntryAt(dict_alloc, call_stack[1].eh).kind = KindDictionary
    /\ call_stack[1].idx < call_stack[1].len

\* C13 as stated: provided every dispatched async builtin gives a result
\* other than PendingCallAgain in the end and the host keeps polling, the
\* async process_line returns in the end, whatever the line.
AsyncReturns == (~Returned) ~> Returned

\* C13: provided every dispatched async builtin gives a result other than
\* PendingCallAgain in the end and the host keeps polling, the async
\* process_line returns in the end (Ok after the whole line, or an error),
\* unless a dictionary word of the line runs forever (a do/loop whose body
\* sets the loop index back); it never loops forever on an empty call stack
\* or on a completed frame.
AsyncReturnsOrWordRuns == ([]<>Returned) \/ (<>[]WordRunning)

\* the line 3 sleep . has been suspended in sleep, resumed, and has
\* returned Ok with its output
AsyncReturnsOrWordRunsWitness ==
    /\ variant = "async" /\ pc = "idle" /\ last.op = "process_line" /\ ret = "Ok"
    /\ input.buf = <<Num(3), W(tSleep), W(tDot)>>
    /\ output = <<51, 32>> \o tOkLine

\* C14: no call of the async process_line returns PendingCallAgain to the
\* host, whatever the async builtins return: the value process_line returned
\* with is never the sentinel.
PendingNeverReturned ==
    variant = "async" => ret # "PendingCallAgain"

\* the sleep builtin has answered PendingCallAgain and is awaited again, the
\* call of process_line still running
PendingNeverReturnedWitness ==
    /\ variant = "async" /\ pc = "await"
    /\ res = "PendingCallAgain" /\ ret = "Running"
    /\ input.buf = <<Num(3), W(tSleep), W(tDot)>>

\* C15: the step on which process_line returns appends "ok." and a newline
\* to the output, as its last bytes, when it returns Ok, and leaves the
\* output as the executed words wrote it when it returns an error; between
\* two tokens process_line writes nothing of its own, a string literal of
\* the line apart.
OkLineOnlyOnOk ==
    [][ /\ (pc # "idle" /\ pc' = "idle") =>
             IF ret' = "Ok" THEN output' = output \o tOkLine
             ELSE output' = output
        /\ (pc = "line" /\ pc' \notin {"idle", "ub"} /\ output' # output) =>
             cur_word(advance(input)) = tLQuote
      ]_vars

\* a line of the synchronous VM has failed after one of its words wrote
OkLineOnlyOnOkWitness ==
    /\ variant = "sync" /\ pc = "idle" /\ last.op = "process_line"
    /\ ret \notin {"Ok", "Running"}
    /\ output # <<>>

\* the words looked up: names the lines define, names of static builtins
\* (0 is one of them), decimal literals, and a name nothing defines
ProbeNums == {0, 5, -3}
ProbeWords == {tA, tB, tX, tPlus, tDup, <<122, 122>>} \cup {Dec(n) : n \in ProbeNums}

\* the entries of the dictionary named word, and the static builtins named word
EntriesNamed(f, word) == {e \in Chain(f) : EntryAt(f.dict_alloc, e).name = word}
BuiltinsNamed(word) == {i \in 1..Len(Builtins) : Builtins[i].name = word}

\* the order of resolution the claim gives; the allocator hands out
\* increasing addresses, so the entry linked last is the highest one
ExpectedLookup(f, word) ==
    IF EntriesNamed(f, word) # {}
    THEN [k |-> "Dict",
          v |-> CHOOSE e \in EntriesNamed(f, word) :
                    \A e2 \in EntriesNamed(f, word) : e2 <= e]
    ELSE IF BuiltinsNamed(word) # {}
    THEN [k |-> "Builtin",
          v |-> BuiltinAddr(CHOOSE i \in BuiltinsNamed(word) :
                                \A j \in BuiltinsNamed(word) : i <= j)]
    ELSE IF \E n \in ProbeNums : word = Dec(n)
    THEN [k |-> "Literal", v |-> CHOOSE n \in ProbeNums : word = Dec(n)]
    ELSE [k |-> "Err", v |-> 0]

\* C16: lookup of a non-reserved token gives the dictionary entry of that
\* name linked last, else the static builtin of that name, else the decimal
\* literal, else LookupFailed; so the newer of two definitions of a name,
\* and the older one again once the newer is forgotten.
LookupOrder ==
    pc # "ub" => \A word \in ProbeWords : lookup(VM, word) = ExpectedLookup(VM, word)

\* a is defined twice and lookup gives the newer definition
LookupOrderWitness ==
    /\ pc = "idle"
    /\ Cardinality(EntriesNamed(VM, tA)) = 2
    /\ lookup(VM, tA) = [k |-> "Dict", v |-> run_dict_tail]
    /\ \E e \in EntriesNamed(VM, tA) : e < run_dict_tail

\* forget is about to be called, and the token that follows it on the line
ForgetCalled ==
    pc = "call" /\ call_stack # <<>> /\ Top(call_stack).eh = AddrOf(tForget)
ForgetWord == cur_word(advance(input))
ForgetErrors == {"ForgetWithoutWordName", "CantForgetBuiltins", "ForgetNotInDict"}

\* C17: forget with no following token returns ForgetWithoutWordName, with
\* a name only a static builtin has CantForgetBuiltins, with a name nothing
\* has ForgetNotInDict; in the three cases run_dict_tail, the cursor of the
\* arena and the bytes of the arena are as they were.
ForgetErrorsChangeNothing ==
    [][ (ForgetCalled /\ pc' = "ret") =>
          /\ ForgetWord = NoWord => res' = "ForgetWithoutWordName"
          /\ (ForgetWord # NoWord /\ EntriesNamed(VM, ForgetWord) = {}) =>
                 res' = IF BuiltinsNamed(ForgetWord) # {} THEN "CantForgetBuiltins"
                        ELSE "ForgetNotInDict"
          /\ res' \in ForgetErrors =>
                 (run_dict_tail' = run_dict_tail /\ dict_alloc' = dict_alloc)
      ]_vars

\* forget + has returned CantForgetBuiltins with a word in the dictionary
ForgetErrorsChangeNothingWitness ==
    /\ pc = "ret" /\ res = "CantForgetBuiltins"
    /\ call_stack # <<>> /\ Top(call_stack).eh = AddrOf(tForget)
    /\ cur_word(input) = tPlus
    /\ run_dict_tail # NULL

\* the builtins the host registered at run time that the dictionary links
RuntimeBuiltins(f) ==
    {e \in Chain(f) : EntryAt(f.dict_alloc, e).kind = KindRuntimeBuiltin}

\* C18 as stated: forget never removes a builtin; one registered at run time
\* is still linked when forget returns, whatever word forget names, and
\* forget naming it returns CantForgetBuiltins.
ForgetKeepsBuiltins ==
    [][ (ForgetCalled /\ pc' = "ret") =>
          /\ \A e \in RuntimeBuiltins(VM) :
                 e \in ChainFrom(dict_alloc', run_dict_tail', MaxLines)
          /\ (\E e \in RuntimeBuiltins(VM) :
                 EntryAt(dict_alloc, e).name = ForgetWord) =>
                 res' = "CantForgetBuiltins"
      ]_vars

\* C19: a token ;, if, else, then, do or loop met by process_line outside a
\* definition makes it return InterpretingCompileOnlyWord at once: no later
\* token of the line is read, nothing is written or allocated, and the
\* synchronous VM keeps its data stack.
InterpretCompileOnly ==
    [][ (pc = "line" /\ cur_word(advance(input)) \in CompileOnlyWords) =>
          /\ pc' = "idle"
          /\ ret' = "InterpretingCompileOnlyWord"
          /\ input' = advance(input)
          /\ output' = output
          /\ dict_alloc' = dict_alloc /\ run_dict_tail' = run_dict_tail
          /\ variant = "sync" => data_stack' = data_stack
      ]_vars

\* the line 1 loop . has failed at loop: 1 is on the stack, nothing printed
InterpretCompileOnlyWitness ==
    /\ variant = "sync" /\ pc = "idle"
    /\ ret = "InterpretingCompileOnlyWord"
    /\ input = [buf |-> <<Num(1), W(tLoop), W(tDot)>>, pos |-> 2]
    /\ Top(data_stack) = 1
    /\ output = <<>>

\* the tokens lookup never takes for the name of a word
ReservedWords == CompileOnlyWords \cup {tLParen, tLQuote}

\* C20 as stated: a colon whose name token is a reserved token returns an
\* error and links no entry.
ReservedNameRefused ==
    [][ (/\ pc = "call" /\ call_stack # <<>>
         /\ Top(call_stack).eh = AddrOf(tColon)
         /\ cur_word(advance(input)) \in ReservedWords
         /\ pc' = "ret") =>
          (res' # "Ok" /\ run_dict_tail' = run_dict_tail)
      ]_vars

(***************************************************************************)
(* Control structures left open in a definition.                           *)
(***************************************************************************)
\* the structures open after the tokens toks[i..] up to the first ; read
\* from the open structures st (innermost last); twice: an else met in an if
\* that has one.  A then or a loop that does not close the innermost
\* structure closes nothing.
RECURSIVE ScanOpen(_, _, _, _)
ScanOpen(toks, i, st, twice) ==
    IF i > Len(toks) \/ toks[i].b = tSemicolon THEN [st |-> st, twice |-> twice]
    ELSE Val([w \in {toks[i].b} |->
         Val([top \in {IF st = <<>> THEN "none" ELSE Top(st)} |->
             IF w = tIf THEN ScanOpen(toks, i + 1, Append(st, "if"), twice)
             ELSE IF w = tDo THEN ScanOpen(toks, i + 1, Append(st, "do"), twice)
             ELSE IF w = tElse /\ top = "if"
             THEN ScanOpen(toks, i + 1, Append(Pop(st), "ifelse"), twice)
             ELSE IF w = tElse /\ top = "ifelse"
             THEN [st |-> st, twice |-> TRUE]
             ELSE IF w = tThen /\ top \in {"if", "ifelse"}
             THEN ScanOpen(toks, i + 1, Pop(st), twice)
             ELSE IF w = tLoop /\ top = "do"
             THEN ScanOpen(toks, i + 1, Pop(st), twice)
             ELSE ScanOpen(toks, i + 1, st, twice)])])

\* the scan of the definition colon is about to compile: the tokens after
\* the name
DefScan == ScanOpen(input.buf, input.pos + 2, <<>>, FALSE)

OpenError(kind) ==
    CASE kind = "if" -> "IfWithoutThen"
      [] kind = "ifelse" -> "IfElseWithoutThen"
      [] kind = "do" -> "DoWithoutLoop"

\* C21 as stated: a definition with a second else in an if fails with
\* DuplicateElse, one that leaves an if, an if-else or a do open at its ;
\* or at the end of the input fails with the error of a structure it
\* leaves open, and in each case no definition is linked.
OpenStructureRefused ==
    [][ (Calling(tColon) /\ pc' = "ret") =>
          /\ DefScan.twice =>
                 (res' = "DuplicateElse" /\ run_dict_tail' = run_dict_tail)
          /\ (~DefScan.twice /\ DefScan.st # <<>>) =>
                 /\ \E k \in 1..Len(DefScan.st) : res' = OpenError(DefScan.st[k])
                 /\ run_dict_tail' = run_dict_tail
      ]_vars

(***************************************************************************)
(* Comments in a definition.                                               *)
(***************************************************************************)
\* the tokens toks[i..] without the comments: every ( and what follows it
\* up to the first token that ends with a closing paren
RECURSIVE StripComments(_, _, _)
StripComments(toks, i, inside) ==
    IF i > Len(toks) THEN <<>>
    ELSE IF inside
    THEN StripComments(toks, i + 1, ~EndsWithRParen(toks[i].b))
    ELSE IF toks[i].k = "w" /\ toks[i].b = tLParen
    THEN StripComments(toks, i + 1, TRUE)
    ELSE <<toks[i]>> \o StripComments(toks, i + 1, FALSE)

HasComment == \E k \in 1..Len(input.buf) : input.buf[k] = W(tLParen)

\* colon run on the line without its comments, from the VM as it stands
ColonWithoutComments ==
    colon([VM EXCEPT !.input = [buf |-> StripComments(input.buf, 1, FALSE),
                                pos |-> input.pos]])

\* C22 as stated: a definition with a comment, wherever the comment is,
\* compiles as the same definition without the comment: colon returns the
\* same result and leaves the same arena and the same dictionary.
CommentsCompileToNothing ==
    [][ (Calling(tColon) /\ HasComment /\ pc' = "ret") =>
          /\ res' = ColonWithoutComments.r
          /\ dict_alloc' = ColonWithoutComments.f.dict_alloc
          /\ run_dict_tail' = ColonWithoutComments.f.run_dict_tail
      ]_vars

(***************************************************************************)
(* String literals in a definition.                                        *)
(***************************************************************************)
\* the line defines x with a string literal first, and the literal
DefBeginsWithString ==
    /\ Len(input.buf) >= 4
    /\ input.buf[1] = W(tColon) /\ input.buf[3] = W(tLQuote) /\ input.buf[4].k = "s"
DefString == input.buf[4].b

\* the cells of the definition that follow the string: 2 for a number, 1
\* for a word
RECURSIVE CellsOf(_, _)
CellsOf(toks, i) ==
    IF i > Len(toks) \/ toks[i].b = tSemicolon THEN 0
    ELSE (IF parse_num(toks[i].b).ok THEN 2 ELSE 1) + CellsOf(toks, i + 1)

\* C23 as stated: for a definition that begins with a string literal of n
\* bytes, colon lays out the pointer to (write-str), a cell holding n and
\* the n bytes padded to a cell boundary, all of them allocated, and counts
\* 2 + ceil(n / 4) cells for them; (write-str) run from the definition
\* appends the n bytes to the output and leaves the index of its caller
\* one short of the first cell after the padded string.
StringLiteralLayout ==
    [][ /\ (Calling(tColon) /\ DefBeginsWithString /\ pc' = "ret" /\ res' = "Ok") =>
             /\ ReadWord(dict_alloc', pfa(run_dict_tail')) = AddrOf(tWriteStr)
             /\ ReadWord(dict_alloc', pfa(run_dict_tail') + WordSize) = Len(DefString)
             /\ ReadBytes(dict_alloc', pfa(run_dict_tail') + 2 * WordSize,
                          Len(DefString)) = DefString
             /\ EntryAt(dict_alloc', run_dict_tail').len =
                    2 + CeilWords(Len(DefString)) + CellsOf(input.buf, 5)
             /\ dict_alloc'.cur >=
                    pfa(run_dict_tail') + (2 + CeilWords(Len(DefString))) * WordSize
        /\ (Calling(tWriteStr) /\ DefBeginsWithString /\ pc' = "ret") =>
             /\ res' = "Ok"
             /\ output' = output \o DefString
             /\ call_stack'[1].idx + 1 = 2 + CeilWords(Len(DefString))
      ]_vars

(***************************************************************************)
(* Compiled do loops.                                                      *)
(***************************************************************************)
\* what . prints for start, start + 1, ..., limit - 1
RECURSIVE Counted(_, _)
Counted(start, limit) ==
    IF start >= limit THEN <<>>
    ELSE Dec(start) \o <<32>> \o Counted(start + 1, limit)

LineDone(line) == pc = "idle" /\ last.op = "process_line" /\ input.buf = line

\* C24: the word : x limit start do i . loop ; with start < limit runs its
\* body limit - start times, i giving start, start + 1, ..., limit - 1 in
\* that order, and leaves the return stack as it was before the do: empty
\* when it was empty, and with the cell that lay on it still on top.
LoopRunsLimitMinusStart ==
    /\ \A p \in LoopPairs :
          LineDone(LoopLine(p)) =>
              /\ ret = "Ok"
              /\ output = Counted(p[2], p[1]) \o tOkLine
              /\ return_stack = <<>>
    /\ LineDone(KeptLoopLine) =>
              /\ ret = "Ok"
              /\ output = Counted(0, 3) \o Dec(7) \o <<32>> \o tOkLine
              /\ return_stack = <<>>

\* the loop from 0 to 3 over a 7 on the return stack has printed 0 1 2 and
\* then the 7
LoopRunsLimitMinusStartWitness ==
    /\ LineDone(KeptLoopLine) /\ ret = "Ok"
    /\ output = <<48, 32, 49, 32, 50, 32, 55, 32>> \o tOkLine

(***************************************************************************)
(* Division by zero.                                                       *)
(***************************************************************************)
\* C25: /, mod and /mod called with a divisor 0 on top of the data stack,
\* over a dividend, return DivideByZero, push nothing (the two operands
\* are gone) and write nothing; process_line then returns DivideByZero and
\* appends nothing to the output.
DivideByZeroReturned ==
    [][ /\ \A op \in DivWords :
             (/\ Calling(op) /\ pc' = "ret"
              /\ Len(data_stack) >= 2 /\ Top(data_stack) = 0) =>
                 /\ res' = "DivideByZero"
                 /\ data_stack' = Pop(Pop(data_stack))
                 /\ output' = output
        /\ (res = "DivideByZero" /\ pc = "ret" /\ pc' # "ub") =>
                 /\ output' = output
                 /\ res' = "DivideByZero"
                 /\ pc' = "idle" => ret' = "DivideByZero"
      ]_vars

\* the word x has printed 5 and divided by zero: process_line has returned
\* DivideByZero and the output holds the 5 alone
DivideByZeroReturnedWitness ==
    /\ LineDone(DivInWordLine) /\ ret = "DivideByZero"
    /\ output = <<53, 32>>

(***************************************************************************)
(* Name identity.                                                          *)
(***************************************************************************)
NameProbes == {tBqye, tJkbz, tX, tHi, tWord, <<>>}

ProbeFaStrs == {TmpFaStr_new_from(w) : w \in NameProbes}

\* the FaStrs of the state: the names of the entries of the dictionary,
\* and the temporaries lookup builds for the probes
FaStrsOf(f) ==
    {[bytes |-> EntryAt(f.dict_alloc, e).name,
      lenhash |-> EntryAt(f.dict_alloc, e).lenhash] : e \in Chain(f)}
        \cup ProbeFaStrs

EqFaStr(a, b) == FaStr_eq(a.lenhash, a.bytes, b.lenhash, b.bytes)

\* C26: FaStr equality is reflexive, symmetric and transitive, and FaStrs
\* of different bytes are unequal, also when length and kept hash bits agree.
NameIdentity ==
    Val([names \in {FaStrsOf(VM)} |->
        \A a \in names :
            /\ EqFaStr(a, a)
            /\ \A b \in names :
                  /\ EqFaStr(a, b) => EqFaStr(b, a)
                  /\ a.bytes # b.bytes => ~EqFaStr(a, b)
                  /\ \A c \in names :
                        (EqFaStr(a, b) /\ EqFaStr(b, c)) => EqFaStr(a, c)])

\* bqye and jkbz are both defined, their lengths and kept hash bits agree,
\* and each name has run its own word
NameIdentityWitness ==
    /\ LineDone(CollideLine) /\ ret = "Ok"
    /\ output = <<49, 32, 50, 32>> \o tOkLine
    /\ \E e1, e2 \in Chain(VM) :
          /\ EntryAt(dict_alloc, e1).name = tBqye
          /\ EntryAt(dict_alloc, e2).name = tJkbz
          /\ LenHash_eq_ignore_bits(EntryAt(dict_alloc, e1).lenhash,
                                    EntryAt(dict_alloc, e2).lenhash)

(***************************************************************************)
(* Case of names.                                                          *)
(***************************************************************************)
LowerCase(word) == [i \in 1..Len(word) |-> ToLower(word[i])]

\* C27: when colon has defined a word, whatever the case of the name typed,
\* the lower-case spelling of the name finds the new entry in the
\* dictionary, and the line : FOO 7 ; foo . runs the word.
InternedUpperFoundLower ==
    [][ /\ (Calling(tColon) /\ pc' = "ret" /\ res' = "Ok") =>
              /\ run_dict_tail' # run_dict_tail
              /\ find_in_dict_from(dict_alloc', run_dict_tail',
                                   TmpFaStr_new_from(LowerCase(NextName)))
                    = run_dict_tail'
        /\ \A name \in {tFOO, tFoO} :
              (input'.buf = UpperLine(name) /\ pc' = "idle"
               /\ last'.op = "process_line") =>
                  (ret' = "Ok" /\ output' = <<55, 32>> \o tOkLine)
      ]_vars

\* : FOO 7 ; foo . has printed the 7 and the entry is named foo
InternedUpperFoundLowerWitness ==
    /\ LineDone(UpperLine(tFOO)) /\ ret = "Ok"
    /\ output = <<55, 32>> \o tOkLine
    /\ run_dict_tail # NULL
    /\ EntryAt(dict_alloc, run_dict_tail).name = tFoo

CaseProbes == {tFOO, tFoO, tDUP}

\* C28 as stated: every case spelling of a name resolves as its lower-case
\* spelling does, so the lines : foo 7 ; FOO . and 1 DUP . . run the words.
CaseSpellingsResolve ==
    /\ \A w \in CaseProbes : lookup(VM, w) = lookup(VM, LowerCase(w))
    /\ \A name \in {tFOO, tFoO} :
          LineDone(CaseLine(name)) =>
              (ret = "Ok" /\ output = <<55, 32>> \o tOkLine)
    /\ LineDone(DupLine) =>
              (ret = "Ok" /\ output = <<49, 32, 49, 32>> \o tOkLine)

(***************************************************************************)
(* Aligned allocation.                                                     *)
(***************************************************************************)
\* C29: a bump::<T>() that succeeds returns an address that is a multiple
\* of the alignment of T, the first at or after the cursor, whatever byte
\* allocations came before; the cursor is then that address plus the size
\* of T, and the bytes skipped between the old cursor and the address are 0.
AlignedBump ==
    [][ (last'.op = "bump" /\ last'.r = "Ok" /\ nlines' # nlines) =>
          \E t \in ArenaTypes :
              Val([b \in {bump(dict_alloc, t[1], t[2])} |->
                  /\ b.r = "Ok"
                  /\ b.d = dict_alloc'
                  /\ b.ptr % t[1] = 0
                  /\ b.ptr >= dict_alloc.cur
                  /\ b.ptr < dict_alloc.cur + t[1]
                  /\ dict_alloc'.cur = b.ptr + t[2]
                  /\ ReadBytes(dict_alloc', dict_alloc.cur, b.ptr - dict_alloc.cur)
                        = Zeros(b.ptr - dict_alloc.cur)])
      ]_vars

\* a typed allocation has succeeded from an unaligned cursor in an arena
\* that was filled with 170: the cursor is aligned again and the bytes
\* skipped are 0
AlignedBumpWitness ==
    /\ last.op = "bump" /\ last.r = "Ok"
    /\ last.cur0 % WordSize # 0
    /\ dict_alloc.cur % WordSize = 0
    /\ ReadByte(dict_alloc, last.cur0 - 1) = 170
    /\ ReadByte(dict_alloc, last.cur0) = 0

(***************************************************************************)
(* The branches of if.                                                     *)
(***************************************************************************)
\* the word defined by the line is running, and the cell at its index is
\* being executed
RunningWord(line) ==
    /\ input.buf = line /\ pc = "call" /\ Len(call_stack) = 2
    /\ call_stack[1].eh = run_dict_tail

\* the cells executed of : x if 2 . else 3 . then 4 . ; : (jump-zero), with
\* its offset in cell 1; (literal) and . of the branch A, the 2 in cell 3;
\* the (jmp) that ends A, with its offset in cell 6; (literal) and . of the
\* branch B, the 3 in cell 8; (literal) and . after then, the 4 in cell 11
IfCells == {0}
ACells == {2, 4}
JmpCells == {5}
BCells == {7, 9}
RestCells == {10, 12}
\* (literal) and . after then in : x if 2 . then 4 . ; , the 4 in cell 6
ThenRestCells == {5, 7}

\* C30: in the word with if A else B then, a flag that is not 0 has the
\* cells of A executed, then the jump, then the cells after B, and no cell
\* of B; a flag 0 has the cells of B executed and then those after it, and
\* neither a cell of A nor the jump; in the word with if A then, a flag 0
\* goes on at the first cell after A.  What the words print agrees.
OneBranchRuns ==
    \A flag \in Flags :
        /\ RunningWord(IfElseLine(flag)) =>
               call_stack[1].idx \in
                   (IF flag # 0 THEN IfCells \cup ACells \cup JmpCells \cup RestCells
                    ELSE IfCells \cup BCells \cup RestCells)
        /\ LineDone(IfElseLine(flag)) =>
               /\ ret = "Ok"
               /\ output = (IF flag # 0 THEN <<50, 32>> ELSE <<51, 32>>)
                               \o <<52, 32>> \o tOkLine
        /\ RunningWord(IfThenLine(flag)) =>
               call_stack[1].idx \in
                   (IF flag # 0 THEN IfCells \cup ACells \cup ThenRestCells
                    ELSE IfCells \cup ThenRestCells)
        /\ LineDone(IfThenLine(flag)) =>
               /\ ret = "Ok"
               /\ output = (IF flag # 0 THEN <<50, 32>> ELSE <<>>)
                               \o <<52, 32>> \o tOkLine

\* with the flag 0 the word is executing the . of the branch B, and nothing
\* has been printed
OneBranchRunsWitness ==
    /\ RunningWord(IfElseLine(0))
    /\ call_stack[1].idx = 9
    /\ call_stack[1].len = 13
    /\ output = <<>>

(***************************************************************************)
(* An else, a then or a loop that nothing encloses.                        *)
(***************************************************************************)
\* the error of the first else or then of toks[i..] that no if of the open
\* structures st encloses, or of the first loop that no do encloses; "none"
\* when the first ; or the end comes before, or a closer that does not
\* close the innermost structure
RECURSIVE Stray(_, _, _)
Stray(toks, i, st) ==
    IF i > Len(toks) \/ toks[i].b = tSemicolon THEN "none"
    ELSE Val([w \in {toks[i].b} |->
         Val([top \in {IF st = <<>> THEN "none" ELSE Top(st)} |->
         Val([kinds \in {{st[k] : k \in 1..Len(st)}} |->
             IF w = tIf THEN Stray(toks, i + 1, Append(st, "if"))
             ELSE IF w = tDo THEN Stray(toks, i + 1, Append(st, "do"))
             ELSE IF w = tElse
             THEN IF kinds \cap {"if", "ifelse"} = {} THEN "ElseBeforeIf"
                  ELSE IF top = "if" THEN Stray(toks, i + 1, Append(Pop(st), "ifelse"))
                  ELSE "none"
             ELSE IF w = tThen
             THEN IF kinds \cap {"if", "ifelse"} = {} THEN "ThenBeforeIf"
                  ELSE IF top \in {"if", "ifelse"} THEN Stray(toks, i + 1, Pop(st))
                  ELSE "none"
             ELSE IF w = tLoop
             THEN IF "do" \notin kinds THEN "LoopBeforeDo"
                  ELSE IF top = "do" THEN Stray(toks, i + 1, Pop(st))
                  ELSE "none"
             ELSE Stray(toks, i + 1, st)])])])

\* for the definition colon is about to compile: the tokens after the name
DefStray == Stray(input.buf, input.pos + 2, <<>>)

\* C31: a definition with an else or a then that no if encloses, or a loop
\* that no do encloses, fails with ElseBeforeIf, ThenBeforeIf or
\* LoopBeforeDo, and no definition is linked.
StrayCloserRefused ==
    [][ (Calling(tColon) /\ pc' = "ret" /\ DefStray # "none") =>
          (res' = DefStray /\ run_dict_tail' = run_dict_tail)
      ]_vars

\* : x 2 0 do then loop ; has failed with ThenBeforeIf, and x is not defined
StrayCloserRefusedWitness ==
    /\ LineDone(Def(<<Num(2), Num(0), W(tDo), W(tThen), W(tLoop)>>, <<>>))
    /\ nlines = 1
    /\ ret = "ThenBeforeIf"
    /\ run_dict_tail = NULL

(***************************************************************************)
(* Structures closed out of order.                                         *)
(***************************************************************************)
\* toks[i..] has, before its first ; , a loop met while an if opened inside
\* the do is still open, or a then or an else met while a do opened inside
\* the if is still open; st: the open structures, innermost last
RECURSIVE MisNested(_, _, _)
MisNested(toks, i, st) ==
    IF i > Len(toks) \/ toks[i].b = tSemicolon THEN FALSE
    ELSE Val([w \in {toks[i].b} |->
         Val([top \in {IF st = <<>> THEN "none" ELSE Top(st)} |->
         Val([kinds \in {{st[k] : k \in 1..Len(st)}} |->
             IF w = tIf THEN MisNested(toks, i + 1, Append(st, "if"))
             ELSE IF w = tDo THEN MisNested(toks, i + 1, Append(st, "do"))
             ELSE IF w \in {tElse, tThen}
             THEN IF top = "do" THEN kinds \cap {"if", "ifelse"} # {}
                  ELSE IF top = "if" /\ w = tElse
                  THEN MisNested(toks, i + 1, Append(Pop(st), "ifelse"))
                  ELSE IF top \in {"if", "ifelse"} /\ w = tThen
                  THEN MisNested(toks, i + 1, Pop(st))
                  ELSE FALSE
             ELSE IF w = tLoop
             THEN IF top \in {"if", "ifelse"} THEN "do" \in kinds
                  ELSE IF top = "do" THEN MisNested(toks, i + 1, Pop(st))
                  ELSE FALSE
             ELSE MisNested(toks, i + 1, st)])])])

\* C32 as stated: a definition whose do body has an if still open at the
\* loop, or whose if body has a do still open at the then or else, fails
\* and is not linked.
MisNestedRefused ==
    [][ (/\ Calling(tColon) /\ pc' = "ret"
         /\ MisNested(input.buf, input.pos + 2, <<>>)) =>
          (res' # "Ok" /\ run_dict_tail' = run_dict_tail)
      ]_vars

(***************************************************************************)
(* The mode of the VM.                                                     *)
(***************************************************************************)
\* C33 as stated: when colon returns, with Ok or with an error, the mode is
\* the mode the VM had before the colon, and it is Run whenever
\* process_line has returned.
ModeRestored ==
    [][ /\ (Calling(tColon) /\ pc' = "ret") => mode' = mode
        /\ pc' = "idle" => mode' = "Run"
      ]_vars

(***************************************************************************)
(* The arena after a definition and its forget.                            *)
(***************************************************************************)
\* C34 as stated: after : name 1 ; forget name the arena is used as much as
\* before the line.
ForgetRestoresUsed ==
    \A name \in {tX, tHi, tWord} :
        (LineDone(DefForgetLine(name)) /\ ret = "Ok") =>
            dict_alloc.cur = last.cur0

\* C34: after : name 1 ; forget name the cursor is the address the header
\* of the word had: the arena is used by the bytes of the name and of the
\* padding before the header more than before the line, and the head of
\* the dictionary is an entry older than the line, if any.
ForgetKeepsNameBytes ==
    \A name \in {tX, tHi, tWord} :
        (LineDone(DefForgetLine(name)) /\ ret = "Ok") =>
            /\ dict_alloc.cur = last.cur0 + Len(name)
                                  + AlignOffset(last.cur0 + Len(name), WordSize)
            /\ used(dict_alloc) > last.cur0 - dict_alloc.start
            /\ run_dict_tail < last.cur0

\* a second line : x 1 ; forget x has returned: the arena was in use before
\* it, and four bytes more are in use now
ForgetKeepsNameBytesWitness ==
    /\ LineDone(DefForgetLine(tX)) /\ ret = "Ok"
    /\ nlines = 2
    /\ last.cur0 > dict_alloc.start
    /\ dict_alloc.cur = last.cur0 + 4
    /\ run_dict_tail = NULL

(***************************************************************************)
(* The references of the linked entries.                                   *)
(***************************************************************************)
\* the entries linked from the head on, at most two for each host call
Linked(f) == ChainFrom(f.dict_alloc, f.run_dict_tail, 2 * MaxLines)

\* the cells of the body of the entry at e that the interpreter calls
\* through, from cell i on: the cell after (literal), (jump-zero), (jmp)
\* and (jmp-doloop) and the cells of a string after (write-str) are data
RECURSIVE CallCells(_, _, _, _)
CallCells(d, e, len, i) ==
    IF i >= len THEN {}
    ELSE Val([w \in {ReadWord(d, pfa(e) + i * WordSize)} |->
             IF w \in {AddrOf(tLiteralWord), AddrOf(tJumpZero), AddrOf(tJmp),
                       AddrOf(tJmpDoLoop)}
             THEN {w} \cup CallCells(d, e, len, i + 2)
             ELSE IF w = AddrOf(tWriteStr)
             THEN {w} \cup CallCells(d, e, len,
                          i + 2 + CeilWords(ReadWord(d, pfa(e) + (i + 1) * WordSize)))
             ELSE {w} \cup CallCells(d, e, len, i + 1)])

\* C35: whatever definitions, registrations and forgets came before, every
\* linked entry lies below the cursor, its link is empty or a linked entry
\* at a lower address, and every cell its body calls through is a static
\* builtin or a linked entry at a lower address.
ReferencesPointBack ==
    pc # "ub" =>
        Val([linked \in {Linked(VM)} |->
            \A e \in linked :
                Val([de \in {EntryAt(dict_alloc, e)} |->
                    /\ e + EntrySize <= dict_alloc.cur
                    /\ de.link = NULL \/ (de.link \in linked /\ de.link < e)
                    /\ de.kind = KindDictionary =>
                          \A c \in CallCells(dict_alloc, e, de.len, 0) :
                              IsBuiltinAddr(c) \/ (c \in linked /\ c < e)])])

\* forget a has removed the second a: the b and the a defined before it
\* are linked, and b calls that a
ReferencesPointBackWitness ==
    /\ LineDone(<<W(tForget), W(tA)>>) /\ ret = "Ok"
    /\ nlines = 3
    /\ run_dict_tail # NULL
    /\ EntryAt(dict_alloc, run_dict_tail).name = tB
    /\ EntryAt(dict_alloc, run_dict_tail).link \in
           CallCells(dict_alloc, run_dict_tail, EntryAt(dict_alloc, run_dict_tail).len, 0)

(***************************************************************************)
(* The length of a definition and the cells laid out for it.               *)
(***************************************************************************)
\* C36: when colon returns Ok at the ; , the definition it has linked is the
\* new head of the dictionary, and the cursor rounded up to the alignment
\* of a cell is the address of its parameter field plus len cells.
LenCountsCells ==
    [][ (Calling(tColon) /\ pc' = "ret" /\ res' = "Ok") =>
          /\ run_dict_tail' # NULL
          /\ run_dict_tail' # run_dict_tail
          /\ EntryAt(dict_alloc', run_dict_tail').kind = KindDictionary
          /\ dict_alloc'.cur + AlignOffset(dict_alloc'.cur, WordSize) =
                 pfa(run_dict_tail')
                     + EntryAt(dict_alloc', run_dict_tail').len * WordSize
      ]_vars

\* the definition with a comment, an if and an else holding strings, a loop
\* and a last string of 2 bytes is linked, its cursor 2 bytes short of the
\* end of the last cell that len counts
LenCountsCellsWitness ==
    /\ pc = "ret" /\ res = "Ok"
    /\ input.buf \in MixLines
    /\ run_dict_tail # NULL
    /\ EntryAt(dict_alloc, run_dict_tail).len > 20
    /\ dict_alloc.cur % WordSize = 2
    /\ dict_alloc.cur + 2 =
           pfa(run_dict_tail) + EntryAt(dict_alloc, run_dict_tail).len * WordSize
    /\ call_stack # <<>>
    /\ Top(call_stack).eh = AddrOf(tColon)

(***************************************************************************)
(* Writes of the allocations and the bounds of the arena.                  *)
(***************************************************************************)
\* C37: no allocation, bump::<T>() failing with OutOfMemory included,
\* writes a byte below start or at or beyond end.
AllocationsWriteInside ==
    [][ (/\ nlines' # nlines
         /\ last'.op \in {"bump", "bump_write", "bump_u8", "bump_u8s", "bump_str",
                          "add_builtin"})
          => dict_alloc'.oob = dict_alloc.oob
      ]_vars

(***************************************************************************)
(* Words that find the data stack too short.                               *)
(***************************************************************************)
\* the words that take their operands with try_pop
PoppingWords ==
    {tPlus, tMinus, tStar, tAbs, tNegate, tSlash, tMod, tDivMod, tStarSlash,
     tStarSlashMod, tSwap, tRot, t2Swap, t2d2r}

CallingPopping == \E word \in PoppingWords : Calling(word)

\* a word of the data stack that fails with StackEmpty leaves the data
\* stack and the return stack as they were before the call
UnderflowKeepsStacks ==
    [][ (CallingPopping /\ pc' = "ret" /\ res' = "StackEmpty") =>
          (data_stack' = data_stack /\ return_stack' = return_stack)
      ]_vars

\* C38: a word that takes its operands with try_pop and fails with
\* StackEmpty has popped the operands that were there: it leaves the data
\* stack empty and the return stack as it was before the call.
UnderflowPopsOperands ==
    [][ (CallingPopping /\ pc' = "ret" /\ res' = "StackEmpty") =>
          (data_stack' = <<>> /\ return_stack' = return_stack)
      ]_vars

\* 2 0 rot has failed with StackEmpty, and the 2 and the 0 are gone
UnderflowPopsOperandsWitness ==
    /\ LineDone(WordLine(<<2, 0>>, tRot))
    /\ ret = "StackEmpty"
    /\ data_stack = <<>>
    /\ return_stack = <<>>

(***************************************************************************)
(* The stacks when process_line returns an error.                          *)
(***************************************************************************)
\* C39: when process_line of the synchronous VM returns an error, raised by
\* process_line itself, by a builtin or inside nested definitions, every
\* frame pushed has been popped, so that the call stack is as deep as when
\* process_line was entered with it empty; each return that hands the
\* error upward pops one frame, and none of them changes the data stack
\* or the return stack.
ErrorUnwindsFrames ==
    [][ /\ (/\ variant = "sync"
            /\ pc # "idle" /\ pc' = "idle"
            /\ ret' \notin {"Ok", "FormattingErr", "Panic"}) =>
               /\ call_stack' = <<>>
               /\ data_stack' = data_stack
               /\ return_stack' = return_stack
        /\ (/\ variant = "sync"
            /\ pc = "ret" /\ res \notin {"Ok", "Panic"}) =>
               /\ pc' \in {"ret", "idle"}
               /\ res' = res
               /\ call_stack' = Pop(call_stack)
               /\ data_stack' = data_stack
               /\ return_stack' = return_stack
      ]_vars

\* 2 2 0 b has failed with DivideByZero in the / of a, called by b: no
\* frame is left, and the first 2 is still on the data stack
ErrorUnwindsFramesWitness ==
    /\ LineDone(NestedLine(<<2, 2, 0>>, tSlash))
    /\ ret = "DivideByZero"
    /\ call_stack = <<>>
    /\ data_stack = <<2>>

(***************************************************************************)
(* The arithmetic words on every operand.                                  *)
(***************************************************************************)
\* the low Len(x) bytes of the sum of two little-endian numbers
RECURSIVE SumBytesFrom(_, _, _, _)
SumBytesFrom(x, y, i, carry) ==
    IF i > Len(x) THEN <<>>
    ELSE LET t == x[i] + y[i] + carry
         IN  <<t % 256>> \o SumBytesFrom(x, y, i + 1, t \div 256)
SumBytes(x, y) == SumBytesFrom(x, y, 1, 0)

WrappingWords == {tPlus, tMinus, tStar, tNegate, tAbs}
DividingWords == {tSlash, tMod, tDivMod, tStarSlash, tStarSlashMod}

\* the operands the word of the top frame needs
OperandsOf(word) ==
    IF word \in {tNegate, tAbs} THEN 1
    ELSE IF word \in {tStarSlash, tStarSlashMod} THEN 3
    ELSE 2

\* C40: no arithmetic word aborts the VM: called with their operands, + ,
\* - , * , negate and abs return Ok with the result modulo 2^32 on the data
\* stack, and / , mod , /mod , */ and */mod return Ok or DivideByZero,
\* whatever the operands.
ArithmeticNeverAborts ==
    [][ \A word \in WrappingWords \cup DividingWords :
          (/\ Calling(word) /\ pc' = "ret"
           /\ Len(data_stack) >= OperandsOf(word)) =>
             /\ res' \in (IF word \in DividingWords THEN {"Ok", "DivideByZero"} ELSE {"Ok"})
             /\ word = tPlus =>
                    LE4(Top(data_stack')) =
                        SumBytes(LE4(PeekBack(data_stack, 1)), LE4(Top(data_stack)))
             /\ word = tMinus =>
                    SumBytes(LE4(Top(data_stack')), LE4(Top(data_stack))) =
                        LE4(PeekBack(data_stack, 1))
             /\ word = tStar =>
                    LE4(Top(data_stack')) =
                        MulBytes(LE4(PeekBack(data_stack, 1)), LE4(Top(data_stack)), 4)
             /\ word = tNegate =>
                    SumBytes(LE4(Top(data_stack')), LE4(Top(data_stack))) = LE4(0)
             /\ word = tAbs =>
                    IF Top(data_stack) >= 0 THEN Top(data_stack') = Top(data_stack)
                    ELSE SumBytes(LE4(Top(data_stack')), LE4(Top(data_stack))) = LE4(0)
      ]_vars

====
